---------------------------- MODULE Spec2Model ----------------------------
(***************************************************************************)
(* Model of the durango-cli bridge runtime: the agent JSON-RPC transport   *)
(* (CodexAppServerClient), the relay link, the dispatch coordinator, the   *)
(* sync bootstrap and the hydration engine (DurangoBridge).                *)
(*                                                                         *)
(* Node.js runs every handler to its next await on I/O without             *)
(* interleaving; the model has one action per handler segment between two  *)
(* such awaits.  A settled promise's continuation is a separate action     *)
(* (the job the event loop runs next), so the model allows every           *)
(* interleaving the runtime allows, and some more.                         *)
(***************************************************************************)
EXTENDS Integers, Sequences, FiniteSets, TLC

\* ----------------------------------------------------------------- bounds
MaxDispatch == 2      \* dispatch.request frames the relay sends
MaxReq == 4           \* JSON-RPC request ids allocated in one run
MaxCodex == 1         \* distinct agent thread ids
MaxRelayThread == 1   \* distinct relay-assigned thread ids
MaxHeartbeat == 1     \* heartbeat frames sent in one run
MaxReady == 1         \* session.ready frames the relay sends
MaxBadFrames == 1     \* malformed / schema-invalid frames the agent sends

Dispatches == 1..MaxDispatch
ReqIds == 1..MaxReq
CodexIds == 1..MaxCodex

\* Downstream thread ids are pairs <<origin, n>>: supplied by the relay in a
\* dispatch, derived from an agent thread id, or a dispatch's request id.
NoThread == <<"none", 0>>
RelayThread(n) == <<"relay", n>>
RequestId(d) == <<"req", d>>

\* makeDurangoThreadId: `codex:${codexThreadId}`
makeDurangoThreadId(c) == <<"codex", c>>

ActionTypes == {"thread.start", "thread.hydrate", "turn.start", "model.list", "turn.interrupt"}

\* --------------------------------------------- event translator (pure)
MaxChanges == 2       \* elements of a fileChange item's changes[]

\* String.prototype.toLowerCase over the type and status strings of the model
Lower(s) ==
  CASE s = "userMessage" -> "usermessage"
    [] s = "agentMessage" -> "agentmessage"
    [] s = "assistantMessage" -> "assistantmessage"
    [] s = "commandExecution" -> "commandexecution"
    [] s = "fileChange" -> "filechange"
    [] s = "Plan" -> "plan"
    [] s = "webSearch" -> "websearch"
    [] s = "Running" -> "running"
    [] s = "Cancelled" -> "cancelled"
    [] s = "Item/Completed" -> "item/completed"
    [] s = "item/agentMessage/delta" -> "item/agentmessage/delta"
    [] s = "thread/tokenUsage/updated" -> "thread/tokenusage/updated"
    [] s = "account/rateLimits/updated" -> "account/ratelimits/updated"
    [] OTHER -> s

\* An upstream item object: its type string, whether its text / command /
\* summary is non-empty after trim, its status string ("" when absent) and,
\* per element of changes[], whether the element carries a path.
ItemTypes == {"userMessage", "user_message", "agentMessage", "assistant_message",
              "reasoning", "commandExecution", "command_execution",
              "fileChange", "file_change", "plan", "Plan", "webSearch"}
ItemStatuses == {"", "running", "in_progress", "completed", "failed", "Running"}
ChangeLists == UNION {[1..n -> BOOLEAN] : n \in 0..MaxChanges}

IsCommandType(t) == t \in {"commandExecution", "command_execution"}
IsFileChangeType(t) == t \in {"fileChange", "file_change"}

ObjectItems ==
  {[obj |-> TRUE, type |-> t, content |-> c, status |-> st, changes |-> ch] :
     t \in ItemTypes, c \in BOOLEAN, st \in ItemStatuses, ch \in ChangeLists}
\* The shapes that differ in behaviour: status matters for commands only,
\* changes for file changes only.
RawObjects ==
  {i \in ObjectItems :
     /\ (~IsCommandType(i.type) => i.status = "")
     /\ (~IsFileChangeType(i.type) => i.changes = <<>>)
     /\ (IsFileChangeType(i.type) => i.content)}
\* A non-object entry (a JSON string, number or null): content says whether
\* extractText(entry).trim() is non-empty.
RawScalars == {[obj |-> FALSE, type |-> "", content |-> c, status |-> "", changes |-> <<>>] : c \in BOOLEAN}
RawItems == RawObjects \cup RawScalars

\* mapCommandStatus
mapCommandStatus(status) ==
  LET normalized == Lower(status) IN
  IF normalized \in {"in_progress", "inprogress", "running", "queued"} THEN "running"
  ELSE IF normalized \in {"completed", "success", "succeeded"} THEN "completed"
  ELSE "failed"

DownItem(type, turnId, timestamp, status, sub) ==
  [type |-> type, turnId |-> turnId, timestamp |-> timestamp, status |-> status, sub |-> sub]

\* The fileChange branch of mapCodexItem: one item per element that has a path,
\* every one with the timestamp the caller passed.
MapFileChanges(item, turnId, timestamp) ==
  LET idx == {k \in DOMAIN item.changes : item.changes[k]}
      RECURSIVE Build(_)
      Build(k) ==
        IF k > Len(item.changes) THEN <<>>
        ELSE (IF k \in idx THEN <<DownItem("fileChange", turnId, timestamp, "", k - 1)>> ELSE <<>>)
             \o Build(k + 1)
  IN Build(1)

\* mapCodexItem(item, turnId, timestamp)
mapCodexItem(item, turnId, timestamp) ==
  LET type == Lower(item.type) IN
  IF type \in {"usermessage", "user_message"} THEN
    IF item.content THEN <<DownItem("userMessage", turnId, timestamp, "", 0)>> ELSE <<>>
  ELSE IF type \in {"agentmessage", "assistant_message", "assistantmessage"} THEN
    IF item.content THEN <<DownItem("agentMessage", turnId, timestamp, "", 0)>> ELSE <<>>
  ELSE IF type = "reasoning" THEN
    IF item.content THEN <<DownItem("reasoning", turnId, timestamp, "", 0)>> ELSE <<>>
  ELSE IF type \in {"commandexecution", "command_execution"} THEN
    IF item.content
    THEN <<DownItem("commandExecution", turnId, timestamp, mapCommandStatus(item.status), 0)>>
    ELSE <<>>
  ELSE IF type \in {"filechange", "file_change"} THEN
    MapFileChanges(item, turnId, timestamp)
  ELSE IF type = "plan" THEN
    IF item.content THEN <<DownItem("plan", turnId, timestamp, "", 0)>> ELSE <<>>
  ELSE <<DownItem("plan", turnId, timestamp, "json", 0)>>

\* ------------------------------------------------- hydration engine (pure)
\* normalizeTurnLifecycleStatus; "" stands for null
normalizeTurnLifecycleStatus(status) ==
  LET normalized == Lower(status) IN
  IF normalized = "" THEN ""
  ELSE IF normalized \in {"running", "in_progress", "inprogress", "queued", "pending", "started"} THEN "running"
  ELSE IF normalized \in {"completed", "complete", "success", "succeeded"} THEN "completed"
  ELSE IF normalized \in {"interrupted", "aborted", "cancelled", "canceled"} THEN "interrupted"
  ELSE IF normalized \in {"failed", "error", "errored"} THEN "failed"
  ELSE ""

inferIgnoringRunningActivity(candidates, importedTurnItemCount, hasRunningActivity) ==
  LET RECURSIVE First(_)
      First(k) ==
        IF k > Len(candidates) THEN "none"
        ELSE LET normalized == normalizeTurnLifecycleStatus(candidates[k]) IN
             IF normalized = "" THEN First(k + 1) ELSE normalized
      found == First(1)
  IN IF found = "running" THEN ""
     ELSE IF found # "none" THEN found
     ELSE IF importedTurnItemCount > 0 THEN "completed"
     ELSE ""

\* inferHydratedTurnLifecycleStatus: candidates is the tuple turn.status,
\* turn.result.status, turn.turn.status, turn.metadata.status ("" when absent).
inferHydratedTurnLifecycleStatus(candidates, importedTurnItemCount, hasRunningActivity) ==
  LET RECURSIVE First(_)
      First(k) ==
        IF k > Len(candidates) THEN "none"
        ELSE LET normalized == normalizeTurnLifecycleStatus(candidates[k]) IN
             IF normalized = "" THEN First(k + 1) ELSE normalized
      found == First(1)
  IN IF found = "running" THEN ""
     ELSE IF found # "none" THEN found
     ELSE IF hasRunningActivity THEN ""
     ELSE IF importedTurnItemCount > 0 THEN "completed"
     ELSE ""

\* ------------------------------------------ thread/read shape discovery
\* JSON values of a thread/read response. An object carries every key the
\* discovery looks at; a key it does not have holds Absent.
ShapeKeys == {"turns", "turnsPage", "turns_page", "items", "id", "data",
              "thread", "result", "payload", "response"}
Absent == [t |-> "absent"]
Scalar == [t |-> "scalar"]
Str(s) == [t |-> "string", s |-> s]
Arr(a) == [t |-> "array", a |-> a]
Obj(f) == [t |-> "object", o |-> [k \in ShapeKeys |-> IF k \in DOMAIN f THEN f[k] ELSE Absent]]
\* A turn record of the response, told apart by its id
Turn(id) == [t |-> "object", turn |-> id]

\* asObject: typeof value === "object" and not null, which holds of arrays too
asObject(value) == value.t \in {"object", "array"}
\* object[key], undefined on an array and on a key the object does not have
Get(value, key) == IF value.t = "object" THEN value.o[key] ELSE Absent
IsArray(value) == value.t = "array"

normalizeTurnEntries(entries) ==
  [k \in DOMAIN entries |->
     IF asObject(entries[k]) THEN entries[k]
     ELSE [t |-> "object", turn |-> "fresh", items |-> <<entries[k]>>]]

\* The children the loop pushes after a node that bore no turns
Descend(object) ==
  (IF Get(object, "thread") # Absent THEN <<Get(object, "thread")>> ELSE <<>>)
  \o (IF Get(object, "result") # Absent THEN <<Get(object, "result")>> ELSE <<>>)
  \o (IF Get(object, "payload") # Absent THEN <<Get(object, "payload")>> ELSE <<>>)
  \o (IF Get(object, "response") # Absent THEN <<Get(object, "response")>> ELSE <<>>)
  \o (IF Get(object, "data") # Absent /\ ~IsArray(Get(object, "data")) THEN <<Get(object, "data")>> ELSE <<>>)

\* The while loop over the queue. A parsed JSON response is a tree, so no
\* object is met twice and the seen set never skips one.
RECURSIVE VisitQueue(_)
VisitQueue(queue) ==
  IF queue = <<>> THEN <<>>
  ELSE
    LET object == Head(queue)
        turnsPage == IF asObject(Get(object, "turnsPage")) THEN Get(object, "turnsPage")
                     ELSE IF asObject(Get(object, "turns_page")) THEN Get(object, "turns_page")
                     ELSE Absent
    IN IF ~asObject(object) THEN VisitQueue(Tail(queue))
       ELSE IF IsArray(Get(object, "turns")) THEN normalizeTurnEntries(Get(object, "turns").a)
       ELSE IF IsArray(Get(turnsPage, "data")) THEN normalizeTurnEntries(Get(turnsPage, "data").a)
       ELSE IF IsArray(Get(object, "items"))
         THEN <<[t |-> "object",
                 turn |-> IF Get(object, "id").t = "string" THEN Get(object, "id").s ELSE "fresh",
                 items |-> Get(object, "items").a]>>
       ELSE VisitQueue(Tail(queue) \o Descend(object))

extractTurnsFromThreadReadResponse(response) == VisitQueue(<<response>>)

\* The state of one hydrateThreadHistory pass between two loop iterations.
\* emit: the items sent by the latest iteration, in emission order.
HydrationStart(now, nTurns) ==
  [timestamp |-> now - (IF nTurns * 100 > 1 THEN nTurns * 100 ELSE 1),
   importedItemCount |-> 0, importedTurnItemCount |-> 0,
   hasRunningActivity |-> FALSE, emit |-> <<>>, sends |-> 0]

\* One iteration of the item loop of hydrateThreadHistory on rawItem.
ReplayItem(h, rawItem, turnId) ==
  IF ~rawItem.obj THEN
    [h EXCEPT !.emit = <<DownItem("plan", turnId, h.timestamp, "fallback", 0)>>,
              !.sends = h.sends + 1,
              !.timestamp = h.timestamp + 1,
              !.importedTurnItemCount = h.importedTurnItemCount + 1,
              !.importedItemCount = h.importedItemCount + 1]
  ELSE
    LET mappedItems == mapCodexItem(rawItem, turnId, h.timestamp) IN
    [h EXCEPT !.emit = mappedItems,
              !.sends = h.sends + Len(mappedItems),
              !.timestamp = h.timestamp + 1,
              !.hasRunningActivity =
                 h.hasRunningActivity \/
                 \E k \in DOMAIN mappedItems :
                    mappedItems[k].type = "commandExecution" /\ mappedItems[k].status = "running",
              !.importedTurnItemCount = h.importedTurnItemCount + Len(mappedItems),
              !.importedItemCount = h.importedItemCount + Len(mappedItems)]

\* (mutant: the terminator is sent but not counted)
FinishTurnUncounted(h, candidates, turnId) ==
  LET turnLifecycleStatus ==
        inferHydratedTurnLifecycleStatus(candidates, h.importedTurnItemCount, h.hasRunningActivity)
  IN IF turnLifecycleStatus # "" THEN
       [h EXCEPT !.emit = <<DownItem("plan", turnId, h.timestamp, turnLifecycleStatus, 0)>>,
                 !.sends = h.sends + 1,
                 !.timestamp = h.timestamp + 1,
                 !.importedTurnItemCount = 0,
                 !.hasRunningActivity = FALSE]
     ELSE [h EXCEPT !.emit = <<>>, !.importedTurnItemCount = 0, !.hasRunningActivity = FALSE]

\* The end of one iteration of the turn loop: the synthetic terminator, if any,
\* and the per-turn counters reset for the next turn.
FinishTurn(h, candidates, turnId) ==
  LET turnLifecycleStatus ==
        inferHydratedTurnLifecycleStatus(candidates, h.importedTurnItemCount, h.hasRunningActivity)
  IN IF turnLifecycleStatus # "" THEN
       [h EXCEPT !.emit = <<DownItem("plan", turnId, h.timestamp, turnLifecycleStatus, 0)>>,
                 !.sends = h.sends + 1,
                 !.timestamp = h.timestamp + 1,
                 !.importedItemCount = h.importedItemCount + 1,
                 !.importedTurnItemCount = 0,
                 !.hasRunningActivity = FALSE]
     ELSE [h EXCEPT !.emit = <<>>, !.importedTurnItemCount = 0, !.hasRunningActivity = FALSE]

\* hydrateThreadHistory over a whole list of turns, each [candidates, items]:
\* the pass's final state, and the number of event.upsert sends it made.
RECURSIVE ReplayTurn(_, _, _, _)
ReplayTurn(h, items, k, turnId) ==
  IF k > Len(items) THEN h
  ELSE ReplayTurn(ReplayItem(h, items[k], turnId), items, k + 1, turnId)

RECURSIVE HydrateTurns(_, _, _)
HydrateTurns(h, turns, t) ==
  IF t > Len(turns) THEN h
  ELSE HydrateTurns(FinishTurn(ReplayTurn(h, turns[t].items, 1, t), turns[t].candidates, t),
                    turns, t + 1)

hydrateThreadHistory(turns, now) == HydrateTurns(HydrationStart(now, Len(turns)), turns, 1)

VARIABLES
  \* --- CodexAppServerClient
  cws,          \* agent socket: "none", "open", "closing" (closed by stop), "closed";
                \* this.ws is non-null exactly when it is "open"
  proc,         \* this.proc: "none", "running"; "terminated" is null after kill("SIGTERM")
  cPending,     \* this.pending: set of request ids
  cTimers,      \* armed 30 s request timers, by request id
  nextId,       \* next fresh request id (randomUUID)
  agentInbox,   \* requests the agent has received and not answered: [id, method]
  mailbox,      \* per request id: how its promise settled, until the awaiter resumes
  sigCount,     \* per request id: how many times resolve/reject was called
  firedInTable, \* a response-path resolver fired while its entry was still in the table
  cBad,         \* malformed / invalid agent frames received
  \* --- DurangoBridge
  phase,        \* position of DurangoBridge.start
  startWait,    \* request id start() awaits
  rws,          \* relay socket readyState: "none","connecting","open","closing","closed"
  wsRef,        \* this.ws is non-null
  hbHandle,     \* this.heartbeatTimer is non-null
  hbArmed,      \* number of live interval timers
  hbSent,       \* machine.heartbeat frames sent
  readySeen,    \* session.ready frames handled
  relayFirst,   \* type of the first client frame sent on the relay socket
  lastError,    \* the latest session.error handled: "none", "recoverable", "fatal"
  escaped,      \* an error escaped a relay message handler (unhandled rejection)
  exitStatus,   \* process exit status: -1 while running
  stopDone,     \* DurangoBridge.stop has completed
  bindings,     \* this.threadBindings: agent thread id -> downstream id
  bPending,     \* this.pending: request ids holding a dispatch record
  disp,         \* per dispatch: the action and the position of handleDispatch
  acks,         \* per dispatch: dispatch.ack frames sent to the relay
  lastUpsert,   \* the latest event.upsert sent: thread id, and whether it was bound
  boot,         \* sync bootstrap runs: position and awaited request
  \* --- one hydration pass, iteration by iteration
  hyd,          \* the pass's locals, the turn and item reached, the emission history
  \* --- one notification through forwardCodexNotification
  fwd,          \* the latest notification handled and what the handler sent
  \* --- the helper functions on their own
  call          \* the latest helper called: its name, argument and result

reqVars == <<cPending, cTimers, nextId, agentInbox>>
codexVars == <<cws, proc, reqVars, mailbox, sigCount, firedInTable, cBad>>
hbVars == <<hbHandle, hbArmed>>
relayVars == <<rws, wsRef, hbVars, hbSent, readySeen, relayFirst, lastError, escaped>>
bridgeVars == <<phase, startWait, exitStatus, stopDone, bindings, bPending, disp, acks, lastUpsert, boot>>
vars == <<codexVars, relayVars, bridgeVars, hyd, fwd, call>>

\* ------------------------------------------------------------ initial state
NoVal == [n |-> 0, s |-> {}, more |-> FALSE]
Unsettled == [kind |-> "none", val |-> NoVal]
Settled(kind, val) == [kind |-> kind, val |-> val]

IdleDispatch ==
  [type |-> "none", pc |-> "idle", cx |-> 0, tid |-> 0, prompt |-> FALSE, natt |-> 0,
   wait |-> 0, pages |-> 0, threw |-> FALSE, relayOpen |-> FALSE, count |-> 0]
\* projects: what syncProjects returned; cwds, synced, listed: the cwd of each
\* listed thread, the project id its thread.upsert carried ("" when none was
\* sent) and whether the binding loop ran.
\* attempts, failures: the registrations syncProjects has tried and those that
\* failed.
IdleBoot == [pc |-> "idle", wait |-> 0, pages |-> 0, threads |-> {}, projects |-> <<>>,
             cwds |-> <<>>, synced |-> <<>>, listed |-> FALSE,
             attempts |-> 0, failures |-> 0]
DoneBoot == [IdleBoot EXCEPT !.pc = "done"]
NoUpsert == [thread |-> NoThread, codex |-> 0, bound |-> TRUE, n |-> 0, by |-> "none"]
HydIdle == [pc |-> "idle"]

InitCodex ==
  /\ cws = "none" /\ proc = "none"
  /\ cPending = {} /\ cTimers = {} /\ nextId = 1 /\ agentInbox = {}
  /\ mailbox = [id \in ReqIds |-> Unsettled]
  /\ sigCount = [id \in ReqIds |-> 0]
  /\ firedInTable = FALSE /\ cBad = 0

InitBridge ==
  /\ phase = "new" /\ startWait = 0
  /\ rws = "none" /\ wsRef = FALSE
  /\ hbHandle = FALSE /\ hbArmed = 0 /\ hbSent = 0 /\ readySeen = 0
  /\ relayFirst = "none" /\ lastError = "none" /\ escaped = FALSE
  /\ exitStatus = -1 /\ stopDone = FALSE
  /\ bindings = [c \in CodexIds |-> NoThread]
  /\ bPending = {}
  /\ disp = [d \in Dispatches |-> IdleDispatch]
  /\ acks = [d \in Dispatches |-> <<>>]
  /\ lastUpsert = NoUpsert
  /\ boot = [k \in 1..MaxReady |-> IdleBoot]

NoForward == [method |-> "none"]
NoCall == [fn |-> "none"]
Init == InitCodex /\ InitBridge /\ hyd = HydIdle /\ fwd = NoForward /\ call = NoCall

Alive == exitStatus = -1

\* ------------------------------------------------- CodexAppServerClient
\* request(): the guard on the socket, then the id, the timer, the table entry
\* and the frame sent to the agent.
RequestUnguarded == TRUE

CanRequest == cws = "open"

request(method) ==
  /\ nextId <= MaxReq
  /\ cPending' = cPending \cup {nextId}
  /\ cTimers' = cTimers \cup {nextId}
  /\ agentInbox' = agentInbox \cup {[id |-> nextId, method |-> method]}
  /\ nextId' = nextId + 1

NoRequest == UNCHANGED reqVars

\* The awaiter of request id takes the settled promise's outcome.
Resume(id) == mailbox' = [mailbox EXCEPT ![id] = Unsettled]
IsSettled(id) == id \in ReqIds /\ mailbox[id].kind # "none"

\* What the agent may answer to a request of each method.
ReadResponses ==
  << <<>>,
     <<[candidates |-> <<"", "", "", "">>,
        items |-> <<[obj |-> TRUE, type |-> "plan", content |-> TRUE, status |-> "", changes |-> <<>>]>>]>> >>
ResultVals(method) ==
  CASE method = "thread/start" -> {[NoVal EXCEPT !.n = c] : c \in CodexIds}
    [] method = "thread/read" -> {[NoVal EXCEPT !.n = r] : r \in DOMAIN ReadResponses}
    [] method = "thread/list" -> {[NoVal EXCEPT !.s = t, !.more = m] : t \in SUBSET CodexIds, m \in BOOLEAN}
    [] method = "model/list" -> {[NoVal EXCEPT !.n = n, !.more = m] : n \in 0..1, m \in BOOLEAN}
    [] OTHER -> {NoVal}

\* bindSocket, message handler, a response frame (id with result or error):
\* look the entry up, delete it, clear its timer, settle the promise.
ResponseKeepsTimer(id) == cTimers

ResponseTimers(id) == cTimers \ {id}
ResponseTable(id) == cPending \ {id}

\* (the response branch settling without looking the entry up)
OnResponseUnchecked(id, isError, val) ==
  /\ cPending' = ResponseTable(id)
  /\ cTimers' = ResponseTimers(id)
  /\ mailbox' = [mailbox EXCEPT ![id] = Settled(IF isError THEN "error" ELSE "result", val)]
  /\ sigCount' = [sigCount EXCEPT ![id] = @ + 1]
  /\ firedInTable' = (firedInTable \/ id \in cPending')

OnResponse(id, isError, val) ==
  IF id \notin cPending
  THEN UNCHANGED <<cPending, cTimers, mailbox, sigCount, firedInTable>>
  ELSE /\ cPending' = ResponseTable(id)
       /\ cTimers' = ResponseTimers(id)
       /\ mailbox' = [mailbox EXCEPT ![id] = Settled(IF isError THEN "error" ELSE "result", val)]
       /\ sigCount' = [sigCount EXCEPT ![id] = @ + 1]
       /\ firedInTable' = (firedInTable \/ id \in cPending')

AgentRespond(id, isError) ==
  /\ Alive /\ cws \in {"open", "closing"}
  /\ \E r \in agentInbox :
       /\ r.id = id
       /\ agentInbox' = agentInbox \ {r}
       /\ \E val \in (IF isError THEN {NoVal} ELSE ResultVals(r.method)) :
            OnResponse(id, isError, val)
  /\ UNCHANGED <<cws, proc, nextId, cBad, relayVars, bridgeVars, hyd, fwd, call>>

\* (the timer callback without its reject)
OnTimeoutSilent(id) ==
  /\ cPending' = cPending \ {id}
  /\ cTimers' = cTimers \ {id}
  /\ UNCHANGED <<mailbox, sigCount>>

\* The same handler on a response frame nobody is waiting for: its id was
\* never issued, or its request has been answered already. The first such
\* frame of a behaviour is observed in call.
AgentStrayResponse(id, isError) ==
  /\ Alive /\ cws \in {"open", "closing"} /\ call = NoCall
  /\ \A r \in agentInbox : r.id # id
  /\ OnResponse(id, isError, NoVal)
  /\ call' = [fn |-> "strayResponse", id |-> id, isError |-> isError]
  /\ UNCHANGED <<cws, proc, nextId, agentInbox, cBad, relayVars, bridgeVars, hyd, fwd>>

\* request(), the 30 s timer callback: delete the entry, reject.
OnTimeout(id) ==
  /\ cPending' = cPending \ {id}
  /\ cTimers' = cTimers \ {id}
  /\ mailbox' = [mailbox EXCEPT ![id] = Settled("timeout", NoVal)]
  /\ sigCount' = [sigCount EXCEPT ![id] = @ + 1]

RequestTimeout(id) ==
  /\ Alive /\ id \in cTimers
  /\ OnTimeout(id)
  /\ UNCHANGED <<cws, proc, nextId, agentInbox, firedInTable, cBad, relayVars, bridgeVars, hyd, fwd, call>>

\* bindSocket, close handler: emit "disconnected", this.ws = null.
OnClose ==
  /\ cws' = "closed"
  /\ UNCHANGED <<cPending, cTimers, mailbox, sigCount>>

CodexClose ==
  /\ Alive /\ cws \in {"open", "closing"}
  /\ OnClose
  /\ UNCHANGED <<proc, nextId, agentInbox, firedInTable, cBad, relayVars, bridgeVars, hyd, fwd, call>>

\* The spawned agent exits: the exit handler sets this.proc = null.
ProcExit ==
  /\ Alive /\ proc = "running"
  /\ proc' = "none"
  /\ UNCHANGED <<cws, reqVars, mailbox, sigCount, firedInTable, cBad, relayVars, bridgeVars, hyd, fwd, call>>

\* bindSocket, message handler: malformed JSON or a schema-invalid frame is
\* reported (malformedMessage / invalidMessage) and dropped.
AgentBadFrame ==
  /\ Alive /\ cws \in {"open", "closing"} /\ cBad < MaxBadFrames
  /\ cBad' = cBad + 1
  /\ UNCHANGED <<cws, proc, reqVars, mailbox, sigCount, firedInTable, relayVars, bridgeVars, hyd, fwd, call>>

codexStopKeepsPending ==
  /\ UNCHANGED <<mailbox, sigCount, cTimers, cPending>>
  /\ cws' = (IF cws = "open" THEN "closing" ELSE cws)
  /\ proc' = (IF proc = "running" THEN "terminated" ELSE proc)

\* CodexAppServerClient.stop: reject and delete every entry, close the socket,
\* SIGTERM the spawned process.
codexStop ==
  /\ mailbox' = [id \in ReqIds |-> IF id \in cPending THEN Settled("closed", NoVal) ELSE mailbox[id]]
  /\ sigCount' = [id \in ReqIds |-> IF id \in cPending THEN sigCount[id] + 1 ELSE sigCount[id]]
  /\ cTimers' = cTimers \ cPending
  /\ cPending' = {}
  /\ cws' = (IF cws = "open" THEN "closing" ELSE cws)
  /\ proc' = (IF proc = "running" THEN "terminated" ELSE proc)

\* ----------------------------------------------------------- relay link
\* send(): frames are dropped unless this.ws is set and OPEN.
CanSend == wsRef /\ rws = "open"

FirstFrame(type) == IF relayFirst = "none" THEN type ELSE relayFirst

\* send() of one or more frames of one type
SendFirst(type) == relayFirst' = (IF CanSend THEN FirstFrame(type) ELSE relayFirst)

\* (startHeartbeat without its clearInterval)
startHeartbeatKeepsOld ==
  /\ hbArmed' = hbArmed + 1
  /\ hbHandle' = TRUE

\* startHeartbeat: clear the old interval if the field holds one, arm a new one.
startHeartbeat ==
  /\ hbArmed' = (IF hbHandle THEN hbArmed - 1 ELSE hbArmed) + 1
  /\ hbHandle' = TRUE

\* The heartbeat clearing shared by the close handler and stop().
clearHeartbeat ==
  /\ hbArmed' = (IF hbHandle THEN hbArmed - 1 ELSE hbArmed)
  /\ hbHandle' = FALSE

\* DurangoBridge.stop
bridgeStop ==
  /\ clearHeartbeat
  /\ rws' = (IF wsRef /\ rws = "open" THEN "closing" ELSE rws)
  /\ wsRef' = FALSE
  /\ codexStop
  /\ stopDone' = TRUE

\* ------------------------------------------------- DurangoBridge.start
\* codex.start(): attach to a running agent or spawn one, connect, and send
\* initialize; or fail to connect, which rejects start() (the CLI exits 1).
StartCodex ==
  /\ Alive /\ phase = "new"
  /\ \/ /\ \E spawned \in BOOLEAN : proc' = (IF spawned THEN "running" ELSE "none")
        /\ cws' = "open"
        /\ request("initialize")
        /\ startWait' = nextId
        /\ phase' = "initWait"
        /\ UNCHANGED exitStatus
     \/ /\ proc' = "running" /\ cws' = "none"
        /\ NoRequest
        /\ phase' = "failed" /\ exitStatus' = 1
        /\ UNCHANGED startWait
  /\ UNCHANGED <<mailbox, sigCount, firedInTable, cBad, relayVars, stopDone, bindings, bPending,
                 disp, acks, lastUpsert, boot, hyd, fwd, call>>

StartInitializedAnyway ==
  /\ Alive /\ phase = "initWait" /\ IsSettled(startWait)
  /\ Resume(startWait)
  /\ NoRequest
  /\ phase' = "relayWait" /\ rws' = "connecting" /\ wsRef' = TRUE
  /\ UNCHANGED <<startWait, exitStatus>>
  /\ UNCHANGED <<cws, proc, sigCount, firedInTable, cBad, hbVars, hbSent, readySeen, relayFirst,
                 lastError, escaped, stopDone, bindings, bPending, disp, acks, lastUpsert,
                 boot, hyd, fwd, call>>

\* initialize settled: on success notify "initialized", attach the notification
\* listener and ask getAuthStatus; on failure start() rejects.
StartInitialized ==
  /\ Alive /\ phase = "initWait" /\ IsSettled(startWait)
  /\ Resume(startWait)
  /\ IF mailbox[startWait].kind = "result"
     THEN IF CanRequest
          THEN /\ request("getAuthStatus")
               /\ startWait' = nextId
               /\ phase' = "authWait"
               /\ UNCHANGED <<rws, wsRef, exitStatus>>
          ELSE \* getAuthStatus rejects at once; .catch(() => null); connectRelay
               /\ NoRequest
               /\ phase' = "relayWait" /\ rws' = "connecting" /\ wsRef' = TRUE
               /\ UNCHANGED <<startWait, exitStatus>>
     ELSE /\ NoRequest
          /\ phase' = "failed" /\ exitStatus' = 1
          /\ UNCHANGED <<startWait, rws, wsRef>>
  /\ UNCHANGED <<cws, proc, sigCount, firedInTable, cBad, hbVars, hbSent, readySeen, relayFirst,
                 lastError, escaped, stopDone, bindings, bPending, disp, acks, lastUpsert,
                 boot, hyd, fwd, call>>

\* getAuthStatus settled either way: connectRelay creates the relay socket.
StartAuthChecked ==
  /\ Alive /\ phase = "authWait" /\ IsSettled(startWait)
  /\ Resume(startWait)
  /\ phase' = "relayWait" /\ rws' = "connecting" /\ wsRef' = TRUE
  /\ UNCHANGED <<cws, proc, reqVars, sigCount, firedInTable, cBad, hbVars, hbSent, readySeen,
                 relayFirst, lastError, escaped, startWait, exitStatus, stopDone, bindings,
                 bPending, disp, acks, lastUpsert, boot, hyd, fwd, call>>

OnRelayOpenSilent == UNCHANGED relayFirst

\* connectRelay, open handler: machine.hello is sent; start() goes on to wait
\* for a signal.
OnRelayOpen == relayFirst' = FirstFrame("machine.hello")

RelayOpen ==
  /\ Alive /\ rws = "connecting"
  /\ rws' = "open"
  /\ OnRelayOpen
  /\ phase' = "serving"
  /\ UNCHANGED <<codexVars, wsRef, hbVars, hbSent, readySeen, lastError, escaped, startWait,
                 exitStatus, stopDone, bindings, bPending, disp, acks, lastUpsert, boot, hyd, fwd, call>>

\* The relay cannot be reached: connectRelay rejects, start() rejects.
RelayConnectFail ==
  /\ Alive /\ rws = "connecting"
  /\ rws' = "closed"
  /\ phase' = "failed" /\ exitStatus' = 1
  /\ UNCHANGED <<codexVars, wsRef, hbVars, hbSent, readySeen, relayFirst, lastError, escaped,
                 startWait, stopDone, bindings, bPending, disp, acks, lastUpsert, boot, hyd, fwd, call>>

\* SIGINT / SIGTERM while serving: start() runs stop() and returns.
Signal ==
  /\ Alive /\ phase = "serving"
  /\ phase' = "stopped"
  /\ bridgeStop
  /\ UNCHANGED <<nextId, agentInbox, firedInTable, cBad, hbSent, readySeen, relayFirst, lastError,
                 escaped, startWait, exitStatus, bindings, bPending, disp, acks, lastUpsert,
                 boot, hyd, fwd, call>>

\* The heartbeat interval fires: send machine.heartbeat.
OnHeartbeat ==
  /\ hbSent' = (IF CanSend THEN hbSent + 1 ELSE hbSent)
  /\ SendFirst("machine.heartbeat")

HeartbeatTick ==
  /\ Alive /\ hbArmed > 0 /\ hbSent < MaxHeartbeat
  /\ OnHeartbeat
  /\ UNCHANGED <<codexVars, rws, wsRef, hbVars, readySeen, lastError, escaped, bridgeVars, hyd, fwd, call>>

\* connectRelay, close handler: clear the heartbeat timer.
OnRelayClose == clearHeartbeat

RelayClose ==
  /\ Alive /\ rws \in {"open", "closing"}
  /\ rws' = "closed"
  /\ OnRelayClose
  /\ UNCHANGED <<codexVars, wsRef, hbSent, readySeen, relayFirst, lastError, escaped,
                 bridgeVars, hyd, fwd, call>>

\* A frame can reach the message handler while the socket is open, and while
\* it is closing (the peer's frames sent before it saw our close frame).
Receiving == Alive /\ rws \in {"open", "closing"}

\* connectRelay, message handler, session.ready: start the heartbeat, then the
\* bootstrap (syncProjects awaits the manifests first).
OnSessionReady == startHeartbeat

RelayReady ==
  /\ Receiving /\ readySeen < MaxReady
  /\ OnSessionReady
  /\ readySeen' = readySeen + 1
  /\ boot' = [boot EXCEPT ![readySeen + 1].pc = "projects"]
  /\ UNCHANGED <<codexVars, rws, wsRef, hbSent, relayFirst, lastError, escaped, phase,
                 startWait, exitStatus, stopDone, bindings, bPending, disp, acks, lastUpsert, hyd, fwd, call>>

\* The same handler on a session.ready that comes after those whose bootstrap
\* is followed: the heartbeat restarts; the bootstrap it starts is left out.
MaxReadyAgain == 2
RelayReadyAgain ==
  /\ Receiving /\ readySeen >= MaxReady /\ readySeen < MaxReady + MaxReadyAgain
  /\ OnSessionReady
  /\ readySeen' = readySeen + 1
  /\ UNCHANGED <<codexVars, rws, wsRef, hbSent, relayFirst, lastError, escaped, phase,
                 startWait, exitStatus, stopDone, bindings, bPending, disp, acks, lastUpsert,
                 boot, hyd, fwd, call>>

OnSessionErrorAlwaysFatal(recoverable) ==
  /\ bridgeStop
  /\ exitStatus' = 1
  /\ UNCHANGED <<nextId, agentInbox, firedInTable, cBad>>

\* connectRelay, message handler, session.error: fatal unless recoverable.
OnSessionError(recoverable) ==
  IF recoverable
  THEN UNCHANGED <<codexVars, rws, wsRef, hbVars, exitStatus, stopDone>>
  ELSE /\ bridgeStop
       /\ exitStatus' = 1
       /\ UNCHANGED <<nextId, agentInbox, firedInTable, cBad>>

RelayError(recoverable) ==
  /\ Receiving
  /\ lastError' = (IF recoverable THEN "recoverable" ELSE "fatal")
  /\ OnSessionError(recoverable)
  /\ UNCHANGED <<hbSent, readySeen, relayFirst, escaped, phase, startWait, bindings,
                 bPending, disp, acks, lastUpsert, boot, hyd, fwd, call>>

\* connectRelay, message handler, a frame that is not a well-formed server
\* message.  JSON.parse and the property reads are not guarded, and the
\* handler is async: what throws becomes an unhandled rejection, which ends
\* the process or not, by the runtime's unhandled-rejection mode.
BadRelayFrames == {"malformed", "null", "unknownType", "dispatchNoAction", "errorNoBody"}
HandlerThrows(kind) == kind \in {"malformed", "null", "dispatchNoAction", "errorNoBody"}

RelayBadFrame(kind) ==
  /\ Receiving
  /\ IF HandlerThrows(kind)
     THEN /\ escaped' = TRUE
          /\ \E crash \in BOOLEAN : exitStatus' = (IF crash THEN 1 ELSE exitStatus)
     ELSE UNCHANGED <<escaped, exitStatus>>
  /\ UNCHANGED <<codexVars, rws, wsRef, hbVars, hbSent, readySeen, relayFirst, lastError, phase,
                 startWait, stopDone, bindings, bPending, disp, acks, lastUpsert, boot, hyd, fwd, call>>

\* ------------------------------------------- forwardCodexNotification
NotifMethods ==
  {"item/started", "item/completed", "Item/Completed", "turn/completed", "thread/started",
   "turn/started", "thread/name/updated", "thread/renamed", "item/agentMessage/delta",
   "thread/tokenUsage/updated", "account/rateLimits/updated", "turn/diff", "error"}

\* String tests of the handler, over the lower-cased methods of the model
StartsWithThread(m) ==
  m \in {"thread/started", "thread/name/updated", "thread/renamed", "thread/tokenusage/updated"}
IncludesUpdated(m) ==
  m \in {"thread/name/updated", "thread/tokenusage/updated", "account/ratelimits/updated"}
IncludesRenamed(m) == m = "thread/renamed"
IncludesTitle(m) == FALSE
IncludesDelta(m) == m = "item/agentmessage/delta"

\* params: the agent thread id found by extractThreadId (0: none), the item
\* object (obj FALSE: none), the status string, whether a non-empty title is found.
NoItem == [obj |-> FALSE, type |-> "", content |-> FALSE, status |-> "", changes |-> <<>>]
NotifItems ==
  {i \in RawObjects :
     /\ i.type \in {"agentMessage", "commandExecution", "command_execution", "fileChange", "webSearch"}
     /\ i.status \in {"", "running"}
     /\ (i.changes = <<>> \/ Len(i.changes) = MaxChanges)}
IsItemMethod(m) == Lower(m) \in {"item/started", "item/completed"}
NotifParams(m) ==
  {[thread |-> c, item |-> i, status |-> st, title |-> t] :
     c \in 0..MaxCodex,
     i \in (IF IsItemMethod(m) THEN NotifItems \cup {NoItem} ELSE {NoItem}),
     st \in (IF Lower(m) = "turn/completed" THEN {"", "completed", "success", "failed", "Cancelled"} ELSE {""}),
     t \in (IF StartsWithThread(Lower(m)) THEN BOOLEAN ELSE {FALSE})}

ResolveOrDerive(c) == IF bindings[c] = NoThread THEN makeDurangoThreadId(c) ELSE bindings[c]

\* The downstream thread id the handler resolves for an agent thread
ResolveBinding(c) == bindings[c]

\* What forwardCodexNotification sends: nothing ("drop"), one thread.update,
\* or n event.upsert frames.
Forwarded(kind, n) == [kind |-> kind, n |-> n]

forwardEveryStartedItem(method, params) ==
  LET lowerMethod == Lower(method)
      rawItem == params.item
      status == IF params.status = "" THEN "completed" ELSE Lower(params.status)
      OrCatchAll(n) == Forwarded("upsert", IF n = 0 THEN 1 ELSE n)
  IN
  IF params.thread = 0 THEN Forwarded("drop", 0)
  ELSE IF ResolveBinding(params.thread) = NoThread THEN Forwarded("drop", 0)
  ELSE IF StartsWithThread(lowerMethod)
          /\ (IncludesUpdated(lowerMethod) \/ IncludesRenamed(lowerMethod) \/ IncludesTitle(lowerMethod))
       THEN IF params.title THEN Forwarded("update", 1) ELSE Forwarded("drop", 0)
  ELSE IF lowerMethod = "item/started" \/ lowerMethod = "item/completed" THEN
       OrCatchAll(IF rawItem.obj THEN Len(mapCodexItem(rawItem, 0, 0)) ELSE 0)
  ELSE IF lowerMethod = "turn/completed" THEN
       OrCatchAll(IF status # "completed" /\ status # "success" THEN 1 ELSE 0)
  ELSE IF lowerMethod = "thread/started" \/ lowerMethod = "turn/started"
          \/ IncludesDelta(lowerMethod) \/ IncludesUpdated(lowerMethod)
       THEN Forwarded("drop", 0)
  ELSE OrCatchAll(0)

forwardCodexNotification(method, params) ==
  LET lowerMethod == Lower(method)
      rawItem == params.item
      status == IF params.status = "" THEN "completed" ELSE Lower(params.status)
      OrCatchAll(n) == Forwarded("upsert", IF n = 0 THEN 1 ELSE n)
  IN
  IF params.thread = 0 THEN Forwarded("drop", 0)
  ELSE IF ResolveBinding(params.thread) = NoThread THEN Forwarded("drop", 0)
  ELSE IF StartsWithThread(lowerMethod)
          /\ (IncludesUpdated(lowerMethod) \/ IncludesRenamed(lowerMethod) \/ IncludesTitle(lowerMethod))
       THEN IF params.title THEN Forwarded("update", 1) ELSE Forwarded("drop", 0)
  ELSE IF lowerMethod = "item/started" THEN
       IF ~rawItem.obj THEN Forwarded("drop", 0)
       ELSE IF Lower(rawItem.type) \in {"commandexecution", "command_execution"}
            THEN OrCatchAll(Len(mapCodexItem(rawItem, 0, 0)))
            ELSE Forwarded("drop", 0)
  ELSE IF lowerMethod = "item/completed" THEN
       OrCatchAll(IF rawItem.obj THEN Len(mapCodexItem(rawItem, 0, 0)) ELSE 0)
  ELSE IF lowerMethod = "turn/completed" THEN
       OrCatchAll(IF status # "completed" /\ status # "success" THEN 1 ELSE 0)
  ELSE IF lowerMethod = "thread/started" \/ lowerMethod = "turn/started"
          \/ IncludesDelta(lowerMethod) \/ IncludesUpdated(lowerMethod)
       THEN Forwarded("drop", 0)
  ELSE OrCatchAll(0)

\* An event.upsert batch as sent: its thread id, the agent thread it concerns,
\* and whether that id is the agent thread's binding at the moment of sending.
Upsert(thread, codex, n, by) ==
  [thread |-> thread, codex |-> codex, bound |-> bindings[codex] = thread, n |-> n, by |-> by]

\* The agent emits a notification; the listener start() attached forwards it.
AgentNotification(method, params) ==
  /\ Alive /\ cws \in {"open", "closing"}
  /\ phase \in {"authWait", "relayWait", "serving", "stopped"}
  /\ LET f == forwardCodexNotification(method, params) IN
     /\ f.kind # "drop"
     /\ CanSend
     /\ SendFirst(IF f.kind = "update" THEN "thread.update" ELSE "event.upsert")
     /\ lastUpsert' = (IF f.kind = "upsert"
                       THEN Upsert(ResolveBinding(params.thread), params.thread, f.n, "forward")
                       ELSE lastUpsert)
  /\ UNCHANGED <<codexVars, rws, wsRef, hbVars, hbSent, readySeen, lastError, escaped,
                 phase, startWait, exitStatus, stopDone, bindings, bPending, disp, acks, boot, hyd, fwd, call>>

\* The same handler on the one notification of a behaviour that is observed:
\* kept are the lower-cased method, whether params name an agent thread and
\* whether it was bound when the handler ran, the status, whether params carry
\* an item and how many items the translator maps it to, whether the relay
\* socket was open, and the kind and number of frames sent.
ForwardNotification(method, params) ==
  /\ fwd = NoForward
  /\ Alive /\ cws \in {"open", "closing"}
  /\ phase \in {"authWait", "relayWait", "serving", "stopped"}
  /\ LET f == forwardCodexNotification(method, params) IN
     /\ relayFirst' = (IF f.kind # "drop" /\ CanSend
                       THEN FirstFrame(IF f.kind = "update" THEN "thread.update" ELSE "event.upsert")
                       ELSE relayFirst)
     /\ lastUpsert' = (IF f.kind = "upsert" /\ CanSend
                       THEN Upsert(ResolveBinding(params.thread), params.thread, f.n, "forward")
                       ELSE lastUpsert)
     /\ fwd' = [method |-> Lower(method),
                hasThread |-> params.thread # 0,
                bound |-> params.thread # 0 /\ bindings[params.thread] # NoThread,
                status |-> params.status,
                hasItem |-> params.item.obj,
                itemType |-> params.item.type,
                mapped |-> IF params.item.obj THEN Len(mapCodexItem(params.item, 0, 0)) ELSE 0,
                open |-> CanSend, kind |-> f.kind,
                sent |-> IF f.kind # "drop" /\ CanSend THEN f.n ELSE 0]
  /\ UNCHANGED <<codexVars, rws, wsRef, hbVars, hbSent, readySeen, lastError, escaped,
                 phase, startWait, exitStatus, stopDone, bindings, bPending, disp, acks, boot, hyd, call>>

\* ------------------------------------------------ dispatch coordinator
MaxAttach == 1        \* attachments of one dispatch
NowMs == 100000       \* Date.now() at a hydration pass

\* The payload of a dispatch.ack: a failed ack carries the error code and the
\* message of the error the body threw.
Ack(status) == [status |-> status, code |-> IF status = "failed" THEN "APP_SERVER_ERROR" ELSE "",
                message |-> ""]
FailedAck(message) == [Ack("failed") EXCEPT !.message = message]

\* The messages of the errors a dispatch body can throw: buildTurnInput on an
\* empty input, request() on a socket that is not open, and the rejections of
\* an agent request (the agent's own message is opaque).
EmptyInputMessage == "turn/start requires prompt text or at least one attachment."
RejectMessage(kind) ==
  CASE kind = "notOpen" -> "Codex app-server socket is not open"
    [] kind = "timeout" -> "Request timed out"
    [] kind = "closed" -> "Client closed before response"
    [] OTHER -> "error"

\* ack(): one dispatch.ack frame per status, through send()
ack(d, statuses, message) ==
  /\ acks' = (IF CanSend
              THEN [acks EXCEPT ![d] = @ \o [k \in DOMAIN statuses |->
                      IF statuses[k] = "failed" THEN FailedAck(message) ELSE Ack(statuses[k])]]
              ELSE acks)
  /\ SendFirst("dispatch.ack")

\* The actions a dispatch.request can carry; only the fields its type reads vary.
DispatchActions ==
  {[IdleDispatch EXCEPT !.type = t, !.cx = c, !.tid = r, !.prompt = p, !.natt = n] :
     t \in ActionTypes, c \in 0..MaxCodex, r \in 0..MaxRelayThread, p \in BOOLEAN, n \in 0..MaxAttach}
ValidAction(a) ==
  /\ (a.cx # 0) = (a.type \in {"thread.hydrate", "turn.start", "turn.interrupt"})
  /\ (a.tid # 0) = (a.type \in {"thread.hydrate", "turn.start"})
  /\ (a.type \notin {"thread.start", "turn.start"} => ~a.prompt /\ a.natt = 0)

\* handleDispatch has returned: the action and the body's locals are garbage;
\* the model keeps the type, the agent thread, the reported count and what
\* the input was made of (prompt, attachments); threw
\* says the body threw, relayOpen whether send() could send in the catch block.
Discarded(rec) ==
  [IdleDispatch EXCEPT !.type = rec.type, !.pc = "done", !.cx = rec.cx, !.count = rec.count,
                       !.prompt = rec.prompt, !.natt = rec.natt]

CatchSwallows == <<>>

\* handleDispatch, the catch block: the terminal failed ack.
CatchStatuses == <<"failed">>

Throw(d, rec, pre, message) ==
  /\ disp' = [disp EXCEPT ![d] = [Discarded(rec) EXCEPT !.threw = TRUE, !.relayOpen = CanSend]]
  /\ ack(d, pre \o CatchStatuses, message)
  /\ NoRequest

\* An agent request from the dispatch body: sent and awaited, or rejected at
\* once (socket not open), which lands in the catch block.
Call(d, rec, pre, method, pc) ==
  IF CanRequest
  THEN /\ request(method)
       /\ disp' = [disp EXCEPT ![d] = [rec EXCEPT !.pc = pc, !.wait = nextId]]
       /\ ack(d, pre, "")
  ELSE Throw(d, rec, pre, RejectMessage("notOpen"))

BuildTurnInputUnchecked(d, rec, pre) ==
  IF rec.natt > 0
  THEN /\ disp' = [disp EXCEPT ![d] = [rec EXCEPT !.pc = "fsWait", !.wait = 0]]
       /\ ack(d, pre, "")
       /\ NoRequest
  ELSE Call(d, rec, pre, "turn/start", "turnWait")

\* buildTurnInput, then turnStart: with attachments the files are written
\* first (awaited); an empty input throws.
BuildTurnInput(d, rec, pre) ==
  IF rec.natt > 0
  THEN /\ disp' = [disp EXCEPT ![d] = [rec EXCEPT !.pc = "fsWait", !.wait = 0]]
       /\ ack(d, pre, "")
       /\ NoRequest
  ELSE IF ~rec.prompt THEN Throw(d, rec, pre, EmptyInputMessage)
  ELSE Call(d, rec, pre, "turn/start", "turnWait")

\* handleDispatch, from the accepted ack to the first await on I/O: each
\* branch acks running and starts its first step.
RelayDispatch(d, a) ==
  LET rec == a
      pre == <<"accepted", "running">>
  IN
  /\ Receiving /\ disp[d].pc = "idle"
  /\ \A e \in Dispatches : e < d => disp[e].pc # "idle"
  /\ ValidAction(a)
  /\ CASE rec.type = "thread.start" ->
            /\ Call(d, rec, pre, "thread/start", "threadStartWait")
            /\ UNCHANGED bindings
       [] rec.type = "thread.hydrate" ->
            /\ bindings' = [bindings EXCEPT ![rec.cx] = RelayThread(rec.tid)]
            /\ Call(d, rec, pre, "thread/read", "readWait")
       [] rec.type = "turn.start" ->
            /\ bindings' = [bindings EXCEPT ![rec.cx] = RelayThread(rec.tid)]
            /\ BuildTurnInput(d, rec, pre)
       [] rec.type = "model.list" ->
            /\ Call(d, rec, pre, "model/list", "modelsWait")
            /\ UNCHANGED bindings
       [] rec.type = "turn.interrupt" ->
            /\ Call(d, rec, pre, "turn/interrupt", "interruptWait")
            /\ UNCHANGED bindings
  /\ UNCHANGED <<cws, proc, mailbox, sigCount, firedInTable, cBad, rws, wsRef, hbVars, hbSent,
                 readySeen, lastError, escaped, phase, startWait, exitStatus, stopDone,
                 bPending, lastUpsert, boot, hyd, fwd, call>>

\* materializeAttachmentInputs: mkdir / writeFile return or throw; then turnStart.
DispatchFiles(d, ok) ==
  LET rec == disp[d] IN
  /\ Alive /\ rec.pc = "fsWait"
  /\ IF ok THEN Call(d, rec, <<>>, "turn/start", "turnWait") ELSE Throw(d, rec, <<>>, "write failed")
  /\ UNCHANGED <<cws, proc, mailbox, sigCount, firedInTable, cBad, rws, wsRef, hbVars, hbSent,
                 readySeen, lastError, escaped, phase, startWait, exitStatus, stopDone,
                 bindings, bPending, lastUpsert, boot, hyd, fwd, call>>

CompleteThenThrow(d, rec) ==
  /\ disp' = [disp EXCEPT ![d] = Discarded(rec)]
  /\ ack(d, <<"completed", "failed">>, "error")
  /\ NoRequest

\* handleDispatch: the terminal completed ack of each branch
Complete(d, rec) ==
  /\ disp' = [disp EXCEPT ![d] = Discarded(rec)]
  /\ ack(d, <<"completed">>, "")
  /\ NoRequest

\* handleDispatch (thread.start): threadStart returned; build the input, turnStart.
DispatchThreadStarted(d) ==
  LET rec == disp[d] IN
  /\ Alive /\ rec.pc = "threadStartWait" /\ IsSettled(rec.wait)
  /\ Resume(rec.wait)
  /\ IF mailbox[rec.wait].kind = "result"
     THEN BuildTurnInput(d, [rec EXCEPT !.cx = mailbox[rec.wait].val.n], <<>>)
     ELSE Throw(d, rec, <<>>, RejectMessage(mailbox[rec.wait].kind))
  /\ UNCHANGED <<cws, proc, sigCount, firedInTable, cBad, rws, wsRef, hbVars, hbSent,
                 readySeen, lastError, escaped, phase, startWait, exitStatus, stopDone,
                 bindings, bPending, lastUpsert, boot, hyd, fwd, call>>

\* (thread.start recording the run and binding the thread before turnStart
\* is awaited, so that they stay when turnStart fails)
DispatchTurnStartedBindsFirst(d) ==
  LET rec == disp[d] IN
  /\ Alive /\ rec.pc = "turnWait" /\ IsSettled(rec.wait)
  /\ Resume(rec.wait)
  /\ IF mailbox[rec.wait].kind = "result"
     THEN Complete(d, rec)
     ELSE Throw(d, rec, <<>>, RejectMessage(mailbox[rec.wait].kind))
  /\ IF rec.type = "thread.start"
     THEN /\ bPending' = bPending \cup {d}
          /\ bindings' = [bindings EXCEPT ![rec.cx] = RequestId(d)]
     ELSE UNCHANGED <<bPending, bindings>>
  /\ UNCHANGED <<cws, proc, sigCount, firedInTable, cBad, rws, wsRef, hbVars, hbSent,
                 readySeen, lastError, escaped, phase, startWait, exitStatus, stopDone,
                 lastUpsert, boot, hyd, fwd, call>>

\* handleDispatch (thread.start, turn.start): turnStart returned; thread.start
\* records the run and binds the new agent thread to the request id.
DispatchTurnStarted(d) ==
  LET rec == disp[d] IN
  /\ Alive /\ rec.pc = "turnWait" /\ IsSettled(rec.wait)
  /\ Resume(rec.wait)
  /\ IF mailbox[rec.wait].kind = "result"
     THEN /\ Complete(d, rec)
          /\ IF rec.type = "thread.start"
             THEN /\ bPending' = bPending \cup {d}
                  /\ bindings' = [bindings EXCEPT ![rec.cx] = RequestId(d)]
             ELSE UNCHANGED <<bPending, bindings>>
     ELSE /\ Throw(d, rec, <<>>, RejectMessage(mailbox[rec.wait].kind))
          /\ UNCHANGED <<bPending, bindings>>
  /\ UNCHANGED <<cws, proc, sigCount, firedInTable, cBad, rws, wsRef, hbVars, hbSent,
                 readySeen, lastError, escaped, phase, startWait, exitStatus, stopDone,
                 lastUpsert, boot, hyd, fwd, call>>

\* The thread id a hydration pass puts on its event.upsert frames
HydrationThread(rec) == RelayThread(rec.tid)

\* handleDispatch (thread.hydrate): threadRead returned; hydrateThreadHistory
\* replays the turns in one go, then the completed ack carries the count.
DispatchHydrated(d) ==
  LET rec == disp[d] IN
  /\ Alive /\ rec.pc = "readWait" /\ IsSettled(rec.wait)
  /\ Resume(rec.wait)
  /\ IF mailbox[rec.wait].kind = "result"
     THEN LET h == hydrateThreadHistory(ReadResponses[mailbox[rec.wait].val.n], NowMs) IN
          /\ Complete(d, [rec EXCEPT !.count = h.importedItemCount])
          /\ lastUpsert' = (IF h.sends > 0 /\ CanSend
                            THEN Upsert(HydrationThread(rec), rec.cx, h.sends, "hydrate")
                            ELSE lastUpsert)
     ELSE /\ Throw(d, rec, <<>>, RejectMessage(mailbox[rec.wait].kind))
          /\ UNCHANGED lastUpsert
  /\ UNCHANGED <<cws, proc, sigCount, firedInTable, cBad, rws, wsRef, hbVars, hbSent,
                 readySeen, lastError, escaped, phase, startWait, exitStatus, stopDone,
                 bindings, bPending, boot, hyd, fwd, call>>

\* listModels / listThreads: another page is requested while pages < maxPages
\* and the page was non-empty with a next cursor.
ModelListMaxPages == 5
ThreadListMaxPages == 10
\* (the loop without its test for an empty page)
MorePagesWhileCursor(val, empty, pages, maxPages) == val.more /\ pages < maxPages

MorePages(val, empty, pages, maxPages) == val.more /\ ~empty /\ pages < maxPages

\* handleDispatch (model.list): a page of listModels returned.
DispatchModelsPage(d) ==
  LET rec == disp[d]
      val == mailbox[rec.wait].val
      pages == rec.pages + 1
  IN
  /\ Alive /\ rec.pc = "modelsWait" /\ IsSettled(rec.wait)
  /\ Resume(rec.wait)
  /\ IF mailbox[rec.wait].kind # "result" THEN Throw(d, rec, <<>>, RejectMessage(mailbox[rec.wait].kind))
     ELSE IF MorePages(val, val.n = 0, pages, ModelListMaxPages)
          THEN Call(d, [rec EXCEPT !.pages = pages], <<>>, "model/list", "modelsWait")
          ELSE Complete(d, [rec EXCEPT !.pages = pages])
  /\ UNCHANGED <<cws, proc, sigCount, firedInTable, cBad, rws, wsRef, hbVars, hbSent,
                 readySeen, lastError, escaped, phase, startWait, exitStatus, stopDone,
                 bindings, bPending, lastUpsert, boot, hyd, fwd, call>>

\* handleDispatch (turn.interrupt): turnInterrupt returned.
DispatchInterrupted(d) ==
  LET rec == disp[d] IN
  /\ Alive /\ rec.pc = "interruptWait" /\ IsSettled(rec.wait)
  /\ Resume(rec.wait)
  /\ IF mailbox[rec.wait].kind = "result" THEN Complete(d, rec) ELSE Throw(d, rec, <<>>, RejectMessage(mailbox[rec.wait].kind))
  /\ UNCHANGED <<cws, proc, sigCount, firedInTable, cBad, rws, wsRef, hbVars, hbSent,
                 readySeen, lastError, escaped, phase, startWait, exitStatus, stopDone,
                 bindings, bPending, lastUpsert, boot, hyd, fwd, call>>

\* ------------------------------------------------------ sync bootstrap
\* syncThreads, after listThreads returned: bind every thread that has an id
\* and a cwd under a project, and send its thread.upsert.
BindDiscoveredReplaces(threads) ==
  /\ bindings' = [c \in CodexIds |-> IF c \in threads THEN makeDurangoThreadId(c) ELSE NoThread]
  /\ relayFirst' = (IF threads # {} /\ CanSend THEN FirstFrame("thread.upsert") ELSE relayFirst)

BindDiscovered(threads) ==
  /\ bindings' = [c \in CodexIds |-> IF c \in threads THEN makeDurangoThreadId(c) ELSE bindings[c]]
  /\ relayFirst' = (IF threads # {} /\ CanSend THEN FirstFrame("thread.upsert") ELSE relayFirst)

\* Paths are strings, a string the sequence of its characters. path.resolve
\* of an absolute POSIX path without dot segments: runs of separators collapse
\* and a trailing separator goes, except on the root. Then normalizePath
\* strips the trailing separators of a result longer than one character.
Sep == "/"
normalizePath(input) ==
  LET RECURSIVE Collapse(_)
      Collapse(str) ==
        IF Len(str) <= 1 THEN str
        ELSE IF str[1] = Sep /\ str[2] = Sep THEN Collapse(Tail(str))
        ELSE <<str[1]>> \o Collapse(Tail(str))
      RECURSIVE StripTrailingSeps(_)
      StripTrailingSeps(str) ==
        IF str # <<>> /\ str[Len(str)] = Sep THEN StripTrailingSeps(SubSeq(str, 1, Len(str) - 1))
        ELSE str
      collapsed == Collapse(input)
      resolved == IF Len(collapsed) > 1 /\ collapsed[Len(collapsed)] = Sep
                  THEN SubSeq(collapsed, 1, Len(collapsed) - 1) ELSE collapsed
  IN IF Len(resolved) <= 1 THEN resolved ELSE StripTrailingSeps(resolved)

\* The loop of findProjectIdForCwd from project k on, best holding bestMatch's
\* id ("" for null) and bestPathLength
RECURSIVE BestMatch(_, _, _, _)
BestMatch(projects, normalizedCwd, k, best) ==
  IF k > Len(projects) THEN best.id
  ELSE LET projectPath == normalizePath(projects[k].absolutePath)
           StartsWith(str, prefix) == Len(prefix) <= Len(str) /\ SubSeq(str, 1, Len(prefix)) = prefix
           withinProject == normalizedCwd = projectPath
                            \/ StartsWith(normalizedCwd, projectPath \o <<Sep>>)
       IN IF withinProject /\ Len(projectPath) > best.len
          THEN BestMatch(projects, normalizedCwd, k + 1, [id |-> projects[k].id, len |-> Len(projectPath)])
          ELSE BestMatch(projects, normalizedCwd, k + 1, best)

findProjectIdForCwd(projects, cwd) ==
  BestMatch(projects, normalizePath(cwd), 1, [id |-> "", len |-> -1])

\* The projects of the machine and the cwd of a saved thread (<<>>: the thread
\* has no cwd string, or an empty one)
ProjectLists ==
  LET ProjectPaths ==
        {<<"/">>, <<"/", "a">>, <<"/", "a", "/">>, <<"/", "a", "/", "b">>, <<"/", "a", "b">>}
  IN {<<>>} \cup {<<[id |-> "p1", absolutePath |-> a]>> : a \in ProjectPaths}
     \cup {<<[id |-> "p1", absolutePath |-> a], [id |-> "p2", absolutePath |-> b]>> :
             a \in ProjectPaths, b \in ProjectPaths}
Cwds ==
  {<<>>, <<"/", "a">>, <<"/", "a", "/", "b", "/", "c">>, <<"/", "a", "/", "b", "/">>,
   <<"/", "a", "/", "x">>, <<"/", "a", "b">>, <<"/", "o">>}

\* syncThreads, the loop over the listed threads: the project id each thread's
\* thread.upsert carries, "" for a thread the loop skips
SyncedProjects(projects, threads, cwds) ==
  [c \in CodexIds |->
     IF c \in threads /\ cwds[c] # <<>> THEN findProjectIdForCwd(projects, cwds[c]) ELSE ""]

\* syncProjects: loadProjectsForMachine returned. Without projects it returns
\* at once, and so does syncThreads; else the loop over the projects starts.
BootProjects(k, projects) ==
  /\ Alive /\ boot[k].pc = "projects"
  /\ boot' = [boot EXCEPT ![k] = IF projects = <<>> THEN DoneBoot
                                 ELSE [boot[k] EXCEPT !.pc = "register", !.projects = projects]]
  /\ UNCHANGED <<codexVars, relayVars, phase, startWait,
                 exitStatus, stopDone, bindings, bPending, disp, acks, lastUpsert, hyd, fwd, call>>

\* (the loop as it would be with the try around it instead of inside it)
BootRegisterGivesUp(b, outcome) == outcome = "throws" \/ b.attempts + 1 = Len(b.projects)

\* syncProjects, the loop: the loop ends after the last project only; a
\* registration that throws is caught and logged inside the loop.
BootRegisterEnds(b, outcome) == b.attempts + 1 = Len(b.projects)

\* syncProjects, one iteration: postJson returned ok, returned not ok, or
\* threw. After the last project syncProjects returns the projects and
\* syncThreads asks for the first page of threads; a listThreads that rejects
\* at once is caught there.
BootRegister(k, outcome) ==
  LET b == boot[k] IN
  /\ Alive /\ b.pc = "register"
  /\ IF ~BootRegisterEnds(b, outcome)
     THEN /\ boot' = [boot EXCEPT ![k].attempts = @ + 1,
                                  ![k].failures = IF outcome = "ok" THEN @ ELSE @ + 1]
          /\ NoRequest
     ELSE IF CanRequest
     THEN /\ request("thread/list")
          /\ boot' = [boot EXCEPT ![k].pc = "listWait", ![k].wait = nextId,
                                  ![k].attempts = @ + 1,
                                  ![k].failures = IF outcome = "ok" THEN @ ELSE @ + 1]
     ELSE /\ NoRequest
          /\ boot' = [boot EXCEPT ![k] = DoneBoot]
  /\ UNCHANGED <<cws, proc, mailbox, sigCount, firedInTable, cBad, relayVars, phase, startWait,
                 exitStatus, stopDone, bindings, bPending, disp, acks, lastUpsert, hyd, fwd, call>>

\* syncThreads: a page of listThreads returned (or the request failed, which
\* ends the bootstrap). After the last page every listed thread, whose cwd the
\* response gives as cwds, is matched against the projects.
BootThreadsPage(k, cwds) ==
  LET b == boot[k]
      val == mailbox[b.wait].val
      pages == b.pages + 1
      threads == b.threads \cup val.s
      synced == SyncedProjects(b.projects, threads, cwds)
  IN
  /\ Alive /\ b.pc = "listWait" /\ IsSettled(b.wait)
  /\ Resume(b.wait)
  /\ IF mailbox[b.wait].kind # "result"
     THEN /\ boot' = [boot EXCEPT ![k] = DoneBoot]
          /\ NoRequest
          /\ UNCHANGED <<bindings, relayFirst>>
     ELSE IF MorePages(val, val.s = {}, pages, ThreadListMaxPages)
     THEN IF CanRequest
          THEN /\ request("thread/list")
               /\ boot' = [boot EXCEPT ![k] = [b EXCEPT !.wait = nextId, !.pages = pages, !.threads = threads]]
               /\ UNCHANGED <<bindings, relayFirst>>
          ELSE /\ boot' = [boot EXCEPT ![k] = DoneBoot]
               /\ NoRequest
               /\ UNCHANGED <<bindings, relayFirst>>
     ELSE /\ boot' = [boot EXCEPT ![k] = [DoneBoot EXCEPT !.projects = b.projects, !.threads = threads,
                                                          !.cwds = cwds, !.synced = synced,
                                                          !.listed = TRUE]]
          /\ NoRequest
          /\ BindDiscovered({c \in threads : synced[c] # ""})
  /\ UNCHANGED <<cws, proc, sigCount, firedInTable, cBad, rws, wsRef, hbVars, hbSent, readySeen,
                 lastError, escaped, phase, startWait, exitStatus, stopDone, bPending, disp,
                 acks, lastUpsert, hyd, fwd, call>>

\* ------------------------------------------------------------- the bridge
\* DurangoBridge.start up to the open relay socket
StartSteps ==
  \/ StartCodex
  \/ StartInitialized
  \/ StartAuthChecked
  \/ RelayOpen
  \/ RelayConnectFail

\* What the agent and the request timers do
AgentSteps ==
  \/ \E id \in ReqIds, isError \in BOOLEAN : AgentRespond(id, isError)
  \/ \E id \in ReqIds : RequestTimeout(id)
  \/ CodexClose

\* handleDispatch for the dispatches in D
DispatchSteps(D) ==
  \/ \E d \in D : \E a \in DispatchActions : RelayDispatch(d, a)
  \/ \E d \in D, ok \in BOOLEAN : DispatchFiles(d, ok)
  \/ \E d \in D : DispatchThreadStarted(d)
  \/ \E d \in D : DispatchTurnStarted(d)
  \/ \E d \in D : DispatchHydrated(d)
  \/ \E d \in D : DispatchModelsPage(d)
  \/ \E d \in D : DispatchInterrupted(d)

\* The bootstrap runs, over the project lists P, the thread cwds W and the
\* outcomes O of a registration
BootSteps(P, W, O) ==
  \/ \E k \in 1..MaxReady, projects \in P : BootProjects(k, projects)
  \/ \E k \in 1..MaxReady, outcome \in O : BootRegister(k, outcome)
  \/ \E k \in 1..MaxReady, cwds \in [CodexIds -> W] : BootThreadsPage(k, cwds)

NotifySteps == \E m \in NotifMethods : \E params \in NotifParams(m) : AgentNotification(m, params)

\* The dispatch coordinator with both transports under it: concurrent
\* dispatches, agent answers, errors, timeouts and close, relay close, stop.
Next ==
  \/ StartSteps
  \/ AgentSteps
  \/ DispatchSteps(Dispatches)
  \/ RelayClose
  \/ Signal

Spec == Init /\ [][Next]_vars

\* One dispatch under fair scheduling: a pending agent request is answered or
\* its 30 s timer fires, the filesystem calls of the attachments return, and
\* the event loop resumes a handler whose await has settled. The agent socket
\* and the relay socket may close, a session.error may arrive and a signal
\* may stop the bridge at any moment; nothing obliges them to.
Settles(id) == (\E isError \in BOOLEAN : AgentRespond(id, isError)) \/ RequestTimeout(id)

Resumes(d) ==
  \/ \E ok \in BOOLEAN : DispatchFiles(d, ok)
  \/ DispatchThreadStarted(d)
  \/ DispatchTurnStarted(d)
  \/ DispatchHydrated(d)
  \/ DispatchModelsPage(d)
  \/ DispatchInterrupted(d)

NextLive ==
  \/ StartSteps
  \/ AgentSteps
  \/ DispatchSteps({1})
  \/ \E recoverable \in BOOLEAN : RelayError(recoverable)
  \/ RelayClose
  \/ Signal

SpecLive ==
  /\ Init /\ [][NextLive]_vars
  /\ \A id \in ReqIds : WF_vars(Settles(id))
  /\ WF_vars(Resumes(1))

\* The binding map under every writer: one dispatch, the bootstrap and the
\* notification forwarder, with agent failures, relay close and stop.
NextSync ==
  \/ StartSteps
  \/ AgentSteps
  \/ DispatchSteps({1})
  \/ RelayReady
  \/ BootSteps({<<>>, <<[id |-> "p1", absolutePath |-> <<"/", "a">>]>>}, {<<"/", "a", "/", "x">>}, {"ok"})
  \/ NotifySteps
  \/ RelayClose
  \/ Signal

SpecSync == Init /\ [][NextSync]_vars

\* The sync bootstrap alone, over every project list and thread cwd, with
\* agent failures and relay close.
NextMatch ==
  \/ StartSteps
  \/ AgentSteps
  \/ RelayReady
  \/ BootSteps(ProjectLists, Cwds, {"ok", "refused", "throws"})
  \/ RelayClose

SpecMatch == Init /\ [][NextMatch]_vars

\* The relay link: handshake, heartbeat, session errors, invalid frames, close
\* and stop, with one dispatch as another sender of frames.
NextLink ==
  \/ StartSteps
  \/ AgentSteps
  \/ DispatchSteps({1})
  \/ RelayReady
  \/ HeartbeatTick
  \/ \E recoverable \in BOOLEAN : RelayError(recoverable)
  \/ \E kind \in BadRelayFrames : RelayBadFrame(kind)
  \/ RelayClose
  \/ Signal

SpecLink == Init /\ [][NextLink]_vars

\* The heartbeat timer over a session with several session.ready frames,
\* with session errors, close and stop.
NextBeat ==
  \/ StartSteps
  \/ AgentSteps
  \/ RelayReady
  \/ RelayReadyAgain
  \/ HeartbeatTick
  \/ \E recoverable \in BOOLEAN : RelayError(recoverable)
  \/ RelayClose
  \/ Signal

SpecBeat == Init /\ [][NextBeat]_vars

\* The agent transport: every caller's requests, responses, timeouts, invalid
\* frames, process exit, socket close and stop.
NextTransport ==
  \/ StartSteps
  \/ AgentSteps
  \/ \E id \in ReqIds, isError \in BOOLEAN : AgentStrayResponse(id, isError)
  \/ ProcExit
  \/ AgentBadFrame
  \/ DispatchSteps({1})
  \/ Signal

SpecTransport == Init /\ [][NextTransport]_vars

\* Notification forwarding, observed: the start-up, one dispatch at a time
\* (which binds threads) and one notification, any of the model's, at any
\* moment.
ForwardSteps == \E method \in NotifMethods : \E params \in NotifParams(method) : ForwardNotification(method, params)

NextForward ==
  \/ StartSteps
  \/ AgentSteps
  \/ DispatchSteps({1})
  \/ ForwardSteps

SpecForward == Init /\ [][NextForward]_vars

\* ------------------------------------- one hydration pass, step by step
MaxTurns == 2         \* turns of a thread/read response
MaxItems == 2         \* raw entries of one turn

TurnStatuses == {"", "completed", "success", "running", "in_progress", "failed", "error",
                 "Cancelled", "canceled", "aborted", "interrupted", "weird"}
\* turn.status, turn.result.status, turn.turn.status, turn.metadata.status
Candidates ==
  {<<a, b, "", "">> : a \in TurnStatuses, b \in {"", "completed"}}
  \cup {<<"", "weird", c, d>> : c \in {"", "running", "failed"}, d \in {"", "Cancelled"}}

\* What the latest end of a turn was given: the candidates and the two
\* per-turn locals before they are reset.
NoTurnEnd == [candidates |-> <<>>, importedTurnItemCount |-> 0, hasRunningActivity |-> FALSE]

Timestamps(items) == [k \in DOMAIN items |-> items[k].timestamp]
StrictlyIncreasing(ts) == \A k \in DOMAIN ts : k > 1 => ts[k - 1] < ts[k]

\* The emission history after the iteration that left the locals h
Emitted(h) ==
  [hyd EXCEPT !.h = h,
              !.mono = hyd.mono /\ StrictlyIncreasing(hyd.last \o Timestamps(h.emit)),
              !.last = IF h.emit = <<>> THEN hyd.last ELSE <<h.emit[Len(h.emit)].timestamp>>,
              !.multi = hyd.multi \/ Len(h.emit) > 1,
              !.emitted = hyd.emitted + Len(h.emit)]

\* The responses thread/read resolves with. One node with every combination
\* of the keys looked at, and a root with every combination of children.
Responses ==
  LET NodeShapes ==
        {Obj([turns |-> a, turnsPage |-> b, turns_page |-> c, items |-> d, id |-> e, thread |-> f]) :
           a \in {Absent, Scalar, Arr(<<>>), Arr(<<Turn("turns")>>), Arr(<<Turn("turns"), Scalar>>)},
           b \in {Absent, Scalar, Obj(<<>>), Obj([data |-> Arr(<<Turn("turnsPage")>>)])},
           c \in {Absent, Obj([data |-> Arr(<<Turn("turns_page")>>)])},
           d \in {Absent, Arr(<<Scalar>>)},
           e \in {Absent, Str("thread-1")},
           f \in {Absent, Obj([turns |-> Arr(<<Turn("thread")>>)])}}
      Below == [thread |-> "thread.thread", result |-> "result.thread", payload |-> "payload.thread",
                response |-> "response.thread", data |-> "data.thread"]
      ChildShapes(key) ==
        {Absent, Arr(<<Turn(key)>>), Obj([turns |-> Arr(<<Turn(key)>>)]),
         Obj([thread |-> Obj([turnsPage |-> Obj([data |-> Arr(<<Turn(Below[key])>>)])])])}
      TreeShapes ==
        {Obj([thread |-> a, result |-> b, payload |-> c, response |-> d, data |-> e]) :
           a \in ChildShapes("thread"), b \in ChildShapes("result"), c \in ChildShapes("payload"),
           d \in ChildShapes("response"), e \in ChildShapes("data")}
  IN NodeShapes \cup TreeShapes \cup {Scalar, Arr(<<Turn("root")>>)}

\* hydrateThreadHistory: thread/read resolved with response, and the turns
\* are extracted from it.
HydrateRead(response) ==
  /\ hyd.pc = "idle"
  /\ hyd' = [pc |-> "read", response |-> response,
             turns |-> extractTurnsFromThreadReadResponse(response)]
  /\ UNCHANGED <<codexVars, relayVars, bridgeVars, fwd, call>>

\* hydrateThreadHistory: the locals before the loop over the turns.
HydrateBegin ==
  /\ hyd.pc = "read" /\ Len(hyd.turns) <= MaxTurns
  /\ LET nTurns == Len(hyd.turns) IN
     hyd' = [pc |-> IF nTurns = 0 THEN "done" ELSE "items", h |-> HydrationStart(NowMs, nTurns),
             nTurns |-> nTurns, turn |-> 1, item |-> 0, last |-> <<>>, mono |-> TRUE,
             multi |-> FALSE, emitted |-> 0, turnEnd |-> NoTurnEnd, closed |-> 0]
  /\ UNCHANGED <<codexVars, relayVars, bridgeVars, fwd, call>>

\* One iteration of the item loop, on the turn's next raw entry.
HydrateItem(rawItem) ==
  /\ hyd.pc = "items" /\ hyd.item < MaxItems
  /\ hyd' = [Emitted(ReplayItem(hyd.h, rawItem, hyd.turn)) EXCEPT
               !.item = hyd.item + 1, !.turnEnd = NoTurnEnd]
  /\ UNCHANGED <<codexVars, relayVars, bridgeVars, fwd, call>>

\* The turn whose terminator was emitted last, given what an end of turn emitted
Closed(emit) == IF emit = <<>> THEN hyd.closed ELSE emit[1].turnId

HydrateEndTurnEarly(candidates) ==
  /\ hyd.pc = "items"
  /\ hyd' = [Emitted(FinishTurn(hyd.h, candidates, hyd.turn)) EXCEPT
               !.closed = Closed(FinishTurn(hyd.h, candidates, hyd.turn).emit),
               !.turnEnd = [candidates |-> candidates,
                            importedTurnItemCount |-> hyd.h.importedTurnItemCount,
                            hasRunningActivity |-> hyd.h.hasRunningActivity]]
  /\ UNCHANGED <<codexVars, relayVars, bridgeVars, fwd, call>>

\* The turn's entries are exhausted: the lifecycle terminator, the next turn.
\* closed is the turn whose terminator was emitted last.
HydrateEndTurn(candidates) ==
  /\ hyd.pc = "items"
  /\ hyd' = [Emitted(FinishTurn(hyd.h, candidates, hyd.turn)) EXCEPT
               !.turn = hyd.turn + 1, !.item = 0,
               !.closed = Closed(FinishTurn(hyd.h, candidates, hyd.turn).emit),
               !.turnEnd = [candidates |-> candidates,
                            importedTurnItemCount |-> hyd.h.importedTurnItemCount,
                            hasRunningActivity |-> hyd.h.hasRunningActivity],
               !.pc = IF hyd.turn = hyd.nTurns THEN "done" ELSE "items"]
  /\ UNCHANGED <<codexVars, relayVars, bridgeVars, fwd, call>>

NextHydrate ==
  \/ \E response \in Responses : HydrateRead(response)
  \/ HydrateBegin
  \/ \E rawItem \in RawItems : HydrateItem(rawItem)
  \/ \E candidates \in Candidates : HydrateEndTurn(candidates)

SpecHydrate == Init /\ [][NextHydrate]_vars

\* ------------------------------------------------ the helpers on their own
\* A JavaScript number that is a non-negative integer below 2^53 is the pair
\* hi * 10^6 + lo (0 <= lo < 10^6), which keeps 10^12 and its multiples within
\* the model's integers; neg marks a negative number, kind "other" stands for
\* undefined, NaN and the infinities.
Num(hi, lo) == [kind |-> "number", neg |-> FALSE, hi |-> hi, lo |-> lo]
TimestampNow == Num(1762000, 0)

\* (mutant: every number is taken as seconds)
normalizeTimestampAsSeconds(value, now) ==
  IF value.kind # "number" \/ value.neg \/ (value.hi = 0 /\ value.lo = 0) THEN now
  ELSE Num(value.hi * 1000 + (value.lo * 1000) \div 1000000, (value.lo * 1000) % 1000000)

\* normalizeTimestamp, now being Date.now(). Math.round leaves an integer as
\* it is; value < 1_000_000_000_000 is hi < 10^6.
normalizeTimestamp(value, now) ==
  IF value.kind # "number" \/ value.neg \/ (value.hi = 0 /\ value.lo = 0) THEN now
  ELSE IF value.hi < 1000000
    THEN Num(value.hi * 1000 + (value.lo * 1000) \div 1000000, (value.lo * 1000) % 1000000)
    ELSE value

TimestampInputs ==
  {Num(hi, lo) : hi \in {0, 1, 999, 1000, 1699, 999999, 1000000, 1000001, 1762000, 2000000},
                 lo \in {0, 1, 999, 1000, 1001, 500000, 999000, 999999}}
  \cup {[kind |-> "other", neg |-> FALSE, hi |-> 0, lo |-> 0], [Num(0, 5) EXCEPT !.neg = TRUE],
        [Num(1762000, 0) EXCEPT !.neg = TRUE]}

\* syncThreads normalizes a listed thread's createdAt / updatedAt
CallNormalizeTimestamp(value) ==
  /\ call = NoCall
  /\ call' = [fn |-> "normalizeTimestamp", arg |-> value, ret |-> normalizeTimestamp(value, TimestampNow)]
  /\ UNCHANGED <<codexVars, relayVars, bridgeVars, hyd, fwd>>

\* Strings are sequences of characters. The characters of an attachment
\* name: some the pattern [a-zA-Z0-9._-] admits, the separator, and others.
AdmittedChars == {"a", "c", "e", "h", "m", "n", "t", "Z", "7", ".", "_", "-"}
AttachmentNames ==
  LET NameChars == {"a", ".", "-", "/", " ", "#"}
      Repeat(char, n) == [k \in 1..n |-> char]
  IN {<<>>} \cup UNION {[1..n -> NameChars] : n \in 1..3}
     \cup {Repeat("a", n) : n \in 119..121} \cup {<<"/">> \o Repeat("#", 121)}
Attachment == <<"a", "t", "t", "a", "c", "h", "m", "e", "n", "t">>

\* path.basename on POSIX: trailing separators go, then what follows the
\* last separator stays
basename(p) ==
  LET RECURSIVE Strip(_)
      Strip(str) == IF str # <<>> /\ str[Len(str)] = Sep THEN Strip(SubSeq(str, 1, Len(str) - 1)) ELSE str
      stripped == Strip(p)
      seps == {k \in DOMAIN stripped : stripped[k] = Sep}
      last == IF seps = {} THEN 0 ELSE CHOOSE k \in seps : \A j \in seps : j <= k
  IN SubSeq(stripped, last + 1, Len(stripped))

sanitizeAttachmentName(rawName) ==
  LET baseName == basename(IF rawName = <<>> THEN Attachment ELSE rawName)
      sanitized == [k \in DOMAIN baseName |-> IF baseName[k] \in AdmittedChars THEN baseName[k] ELSE "_"]
  IN IF Len(sanitized) > 120 THEN SubSeq(sanitized, 1, 120)
     ELSE IF sanitized = <<>> THEN Attachment ELSE sanitized

\* String(index + 1).padStart(2, "0")
PaddedIndex(index) ==
  LET Digit(d) == <<"0", "1", "2", "3", "4", "5", "6", "7", "8", "9">>[d + 1]
      RECURSIVE Decimal(_)
      Decimal(n) == IF n < 10 THEN <<Digit(n)>> ELSE Decimal(n \div 10) \o <<Digit(n % 10)>>
      str == Decimal(index + 1)
  IN IF Len(str) < 2 THEN <<"0">> \o str ELSE str

\* materializeAttachmentInputs, one iteration of its loop: the path of the
\* file written for the attachment at index, as a sequence of path segments.
\* baseDir and requestId are plain segments.
AttachmentPath(baseDir, requestId, index, name) ==
  LET attachmentDir == baseDir \o <<".durango", "uploads", requestId>>
      safeName == sanitizeAttachmentName(name)
      fileName == PaddedIndex(index) \o <<"-">> \o safeName
  IN attachmentDir \o <<fileName>>

CallAttachmentPath(requestId, index, name) ==
  /\ call = NoCall
  /\ call' = [fn |-> "materializeAttachmentInputs",
              arg |-> [baseDir |-> <<"work">>, requestId |-> requestId, index |-> index, name |-> name],
              ret |-> AttachmentPath(<<"work">>, requestId, index, name)]
  /\ UNCHANGED <<codexVars, relayVars, bridgeVars, hyd, fwd>>

\* ------------------------------------------------ the project registration
MaxSaves == 3         \* calls of saveProjectRegistration in one behaviour

\* path.resolve on an absolute path without dot segments: repeated separators
\* collapse and a trailing separator goes, except on the root.
pathResolve(p) ==
  LET RECURSIVE Collapse(_)
      Collapse(str) ==
        IF Len(str) <= 1 THEN str
        ELSE IF str[1] = Sep /\ str[2] = Sep THEN Collapse(Tail(str))
        ELSE <<str[1]>> \o Collapse(Tail(str))
      collapsed == Collapse(p)
  IN IF Len(collapsed) > 1 /\ collapsed[Len(collapsed)] = Sep
     THEN SubSeq(collapsed, 1, Len(collapsed) - 1) ELSE collapsed

\* The absolute paths a folder can have: up to three characters after which
\* nothing distinguishes them further, and a folder whose name is a blank.
ProjectPaths ==
  {<<Sep>>, <<Sep, " ">>}
    \cup {<<Sep>> \o rest : rest \in UNION {[1..n -> {Sep, "a"}] : n \in 1..2}}

projectFilePath(absolutePath) == <<absolutePath, ".durango", "project.json">>

\* isString: a string with something other than white space in it
isString(value) == \E k \in DOMAIN value : value[k] # " "

NoFile == [version |-> 0]
\* parseLocalProjectFile on what JSON.parse gives for a file's content; null
\* is NoFile. An undefined gitBranch is not written by JSON.stringify.
parseLocalProjectFile(raw) ==
  IF raw.version # 1 THEN NoFile
  ELSE IF raw.project.id = 0 \/ raw.project.machineId = "" \/ ~isString(raw.project.name) THEN NoFile
  ELSE raw

\* The file system and the generator of UUIDs as saveProjectRegistration sees
\* them: the project files by path, the registry file, the UUIDs handed out
\* and the clock. first is the id the first call for a resolved path returned.
FreshDisk == [fn |-> "saveProjectRegistration", n |-> 0,
              files |-> [f \in {projectFilePath(pathResolve(p)) : p \in ProjectPaths} |-> NoFile],
              registry |-> <<>>, uuids |-> 0,
              first |-> [q \in {pathResolve(p) : p \in ProjectPaths} |-> 0]]

\* saveProjectRegistration: read the project file of the folder, keep its id
\* and createdAt when it parses, write the file anew, and put its path in the
\* registry when it is not there.
saveProjectRegistration(disk, input) ==
  LET absolutePath == pathResolve(input.absolutePath)
      filePath == projectFilePath(absolutePath)
      existing == parseLocalProjectFile(disk.files[filePath])
      fresh == existing = NoFile
      project == [version |-> 1,
                  project |-> [id |-> IF fresh THEN disk.uuids + 1 ELSE existing.project.id,
                               machineId |-> input.machineId,
                               name |-> basename(absolutePath),
                               gitBranch |-> input.gitBranch,
                               createdAt |-> IF fresh THEN disk.n + 1 ELSE existing.project.createdAt]]
      included == \E k \in DOMAIN disk.registry : disk.registry[k] = filePath
  IN [files |-> [disk.files EXCEPT ![filePath] = project],
      registry |-> IF included THEN disk.registry ELSE disk.registry \o <<filePath>>,
      uuids |-> IF fresh THEN disk.uuids + 1 ELSE disk.uuids,
      ret |-> [id |-> project.project.id, machineId |-> input.machineId, absolutePath |-> absolutePath,
               name |-> project.project.name, gitBranch |-> project.project.gitBranch]]

CallSaveProjectRegistration(input) ==
  LET disk == IF call = NoCall THEN FreshDisk ELSE call
      saved == saveProjectRegistration(disk, input)
  IN /\ disk.fn = "saveProjectRegistration" /\ disk.n < MaxSaves
     /\ call' = [fn |-> "saveProjectRegistration", n |-> disk.n + 1,
                 files |-> saved.files, registry |-> saved.registry, uuids |-> saved.uuids,
                 first |-> IF disk.first[saved.ret.absolutePath] = 0
                           THEN [disk.first EXCEPT ![saved.ret.absolutePath] = saved.ret.id]
                           ELSE disk.first,
                 arg |-> input, ret |-> saved.ret]
     /\ UNCHANGED <<codexVars, relayVars, bridgeVars, hyd, fwd>>

\* ------------------------------------------------- the items of a turn
\* The turn records extractItemsFromTurn is tried on: each of the five fields
\* it looks at for an array is absent, not an array, an empty array or an
\* array of one entry told apart by the field; item and message are absent
\* or present.
TurnRecords ==
  LET Values(key) == {Absent, Scalar, Arr(<<>>), Arr(<<Str(key)>>)}
  IN {[items |-> a, events |-> b, messages |-> c, output |-> d, content |-> e, item |-> f, message |-> g] :
        a \in Values("items"), b \in Values("events"), c \in Values("messages"),
        d \in Values("output"), e \in Values("content"),
        f \in {Absent, Str("item")}, g \in {Absent, Str("message")}}

extractItemsFromTurn(turn) ==
  LET candidates == <<turn.items, turn.events, turn.messages, turn.output, turn.content>>
      arrays == {k \in DOMAIN candidates : IsArray(candidates[k])}
  IN IF arrays # {} THEN candidates[CHOOSE k \in arrays : \A j \in arrays : k <= j].a
     ELSE IF turn.item # Absent THEN <<turn.item>>
     ELSE IF turn.message # Absent THEN <<turn.message>>
     ELSE <<>>

CallExtractItemsFromTurn(turn) ==
  /\ call = NoCall
  /\ call' = [fn |-> "extractItemsFromTurn", arg |-> turn, ret |-> extractItemsFromTurn(turn)]
  /\ UNCHANGED <<codexVars, relayVars, bridgeVars, hyd, fwd>>

\* ------------------------------------------ the frames of the agent socket
\* bindSocket, message handler, on a frame that parsed and passed the schema
\* (every field of the schema is optional): a frame with an id and a result
\* or an error is a response, looked up in the pending table; any other frame
\* with a (non-empty) method is emitted as a notification, its id ignored;
\* what is left is dropped silently. The handler emits invalidMessage only
\* for a frame the schema refuses.
bindSocketMessage(frame) ==
  IF frame.id # Absent /\ (frame.result # Absent \/ frame.error # Absent) THEN "response"
  ELSE IF frame.method \notin {Absent, Str("")} THEN "notification"
  ELSE "dropped"

CallBindSocketMessage(frame) ==
  /\ call = NoCall
  /\ call' = [fn |-> "bindSocket", arg |-> frame, ret |-> bindSocketMessage(frame)]
  /\ UNCHANGED <<codexVars, relayVars, bridgeVars, hyd, fwd>>

NextHelpers ==
  \/ \E id \in {Absent, Scalar}, method \in {Absent, Str(""), Str("turn/completed")},
        result \in {Absent, Scalar}, error \in {Absent, Obj(<<>>)} :
       CallBindSocketMessage([id |-> id, method |-> method, result |-> result, error |-> error])
  \/ \E turn \in TurnRecords : CallExtractItemsFromTurn(turn)
  \/ \E value \in TimestampInputs : CallNormalizeTimestamp(value)
  \/ \E index \in {0, 8, 9, 98, 99, 100}, name \in AttachmentNames : CallAttachmentPath("req-1", index, name)
  \/ \E absolutePath \in ProjectPaths, gitBranch \in {"", "main", "feature/new-work"} :   \* "" is undefined
       CallSaveProjectRegistration([absolutePath |-> absolutePath, machineId |-> "machine-a",
                                    gitBranch |-> gitBranch])

SpecHelpers == Init /\ [][NextHelpers]_vars

\* ------------------------------------------- connect(), step by step
\* StartCodex takes codex.start() in one step; here the retry loop of
\* connect() after spawnServerProcess is followed iteration by iteration.
\* Times are in milliseconds since connect() read startedAt.
MaxWaitMs == 25000
ConnectOnceTimeoutMs == 2000
RetryDelayMs == 300
NoExitCode == -1      \* exitCode === null

\* connect() after spawnServerProcess(): this.proc is the child, procError is
\* null, the loop is entered. ref is this.proc # null; exitCode is that of the
\* child object; exitedAt is when the exit handler ran.
spawnServerProcess ==
  /\ call = NoCall
  /\ call' = [fn |-> "connect", pc |-> "check", elapsed |-> 0, ref |-> TRUE, exitCode |-> NoExitCode,
              procError |-> FALSE, exitedAt |-> NoExitCode, outcome |-> ""]
  /\ UNCHANGED <<codexVars, relayVars, bridgeVars, hyd, fwd>>

\* The child's exit event: Node sets exitCode and emits "exit" in one go; the
\* handler emits processExit and sets this.proc = null.
OnProcExit(code) ==
  /\ call.fn = "connect" /\ call.pc \in {"once", "sleep"}
  /\ call.exitedAt = NoExitCode /\ ~call.procError
  /\ call' = [call EXCEPT !.ref = FALSE, !.exitCode = code, !.exitedAt = call.elapsed]
  /\ UNCHANGED <<codexVars, relayVars, bridgeVars, hyd, fwd>>

\* The child's error event (the binary could not be spawned)
OnProcError ==
  /\ call.fn = "connect" /\ call.pc \in {"once", "sleep"}
  /\ call.exitedAt = NoExitCode /\ ~call.procError
  /\ call' = [call EXCEPT !.procError = TRUE]
  /\ UNCHANGED <<codexVars, relayVars, bridgeVars, hyd, fwd>>

\* connect(), the head of one loop iteration
ConnectCheck ==
  /\ call.fn = "connect" /\ call.pc = "check"
  /\ call' = (IF call.elapsed >= MaxWaitMs THEN [call EXCEPT !.pc = "done", !.outcome = "timedOut"]
              ELSE IF call.procError THEN [call EXCEPT !.pc = "done", !.outcome = "failedToStart"]
              ELSE IF call.ref /\ call.exitCode # NoExitCode
                   THEN [call EXCEPT !.pc = "done", !.outcome = "exitedEarly"]
              ELSE [call EXCEPT !.pc = "once"])
  /\ UNCHANGED <<codexVars, relayVars, bridgeVars, hyd, fwd>>

\* connectOnce: the socket opens (only a live agent listens), or the attempt
\* fails after took milliseconds, at the latest by its timeout.
connectOnce(opened, took) ==
  /\ call.fn = "connect" /\ call.pc = "once"
  /\ opened => call.exitedAt = NoExitCode /\ ~call.procError
  /\ call' = (IF opened THEN [call EXCEPT !.pc = "done", !.outcome = "connected", !.elapsed = @ + took]
              ELSE [call EXCEPT !.pc = "sleep", !.elapsed = @ + took])
  /\ UNCHANGED <<codexVars, relayVars, bridgeVars, hyd, fwd>>

\* connect(), the catch block: wait 300 ms and loop
ConnectRetryDelay ==
  /\ call.fn = "connect" /\ call.pc = "sleep"
  /\ call' = [call EXCEPT !.pc = "check", !.elapsed = @ + RetryDelayMs]
  /\ UNCHANGED <<codexVars, relayVars, bridgeVars, hyd, fwd>>

NextConnect ==
  \/ spawnServerProcess
  \/ \E code \in {0, 1} : OnProcExit(code)
  \/ OnProcError
  \/ ConnectCheck
  \/ \E opened \in BOOLEAN, took \in {0, ConnectOnceTimeoutMs} : connectOnce(opened, took)
  \/ ConnectRetryDelay

SpecConnect == Init /\ [][NextConnect]_vars

\* ------------------------------------ listThreads / listModels, page by page
\* The dispatch coordinator and the bootstrap call the two functions with
\* constant arguments; here they are called with any limit and maxPages (<<>>
\* when the argument is left out) and the agent answers each page as it likes.
MaxPageLimit == 100
MaxMaxPages == 20
DefaultLimit == 50
DefaultMaxPages == 5
MaxPageSize == 1

\* listThreads / listModels up to the first await: the clamped arguments and
\* the first request.
listPages(fn, args) ==
  LET Least(a, b) == IF a < b THEN a ELSE b
      Greatest(a, b) == IF a > b THEN a ELSE b
      pageLimit == Least(MaxPageLimit, Greatest(1, IF args.limit = <<>> THEN DefaultLimit ELSE args.limit[1]))
      maxPages == Least(MaxMaxPages, Greatest(1, IF args.maxPages = <<>> THEN DefaultMaxPages ELSE args.maxPages[1]))
  IN /\ call = NoCall
     /\ call' = [fn |-> fn, args |-> args, pageLimit |-> pageLimit, maxPages |-> maxPages,
                 pages |-> 0, count |-> 0, more |-> FALSE, size |-> 0,
                 pc |-> IF 0 < maxPages THEN "wait" ELSE "done"]
     /\ UNCHANGED <<codexVars, relayVars, bridgeVars, hyd, fwd>>

\* The loop body after the await: a page of size entries came back, with a
\* next cursor or without; the entries are appended, and the loop breaks or
\* tests pages < maxPages and asks for the next page.
ListPageReturned(more, size) ==
  /\ call.fn \in {"listThreads", "listModels"} /\ call.pc = "wait"
  /\ call' = [call EXCEPT !.pages = @ + 1, !.count = @ + size, !.more = more, !.size = size,
                          !.pc = IF MorePages([more |-> more], size = 0, call.pages + 1, call.maxPages)
                                 THEN "wait" ELSE "done"]
  /\ UNCHANGED <<codexVars, relayVars, bridgeVars, hyd, fwd>>

\* The request of a page rejected (error response, timeout or close): the
\* await throws out of the function.
ListPageRejected ==
  /\ call.fn \in {"listThreads", "listModels"} /\ call.pc = "wait"
  /\ call' = [call EXCEPT !.pc = "threw"]
  /\ UNCHANGED <<codexVars, relayVars, bridgeVars, hyd, fwd>>

ListSettles == (\E more \in BOOLEAN, size \in 0..MaxPageSize : ListPageReturned(more, size)) \/ ListPageRejected

NextList ==
  \/ \E fn \in {"listThreads", "listModels"},
        limit \in {<<>>, <<-1>>, <<0>>, <<1>>, <<50>>, <<100>>, <<101>>},
        maxPages \in {<<>>, <<-1>>, <<0>>, <<1>>, <<10>>, <<20>>, <<21>>} :
       listPages(fn, [limit |-> limit, maxPages |-> maxPages])
  \/ \E more \in BOOLEAN, size \in 0..MaxPageSize : ListPageReturned(more, size)
  \/ ListPageRejected

\* The agent answers each page request: a pending page is settled in the end.
SpecList == Init /\ [][NextList]_vars /\ WF_vars(ListSettles)

\* ================================================================ claims
Statuses(d) == [k \in DOMAIN acks[d] |-> acks[d][k].status]
CountOf(seq, x) == Cardinality({k \in DOMAIN seq : seq[k] = x})
Terminal == {"completed", "failed"}

\* C1: for every dispatch, the dispatch.ack statuses sent for its request id
\* are a prefix of [accepted, running, T] with T completed or failed: accepted
\* first, running before the terminal ack, one terminal ack at most and
\* nothing after it, also with several dispatches in flight.
C1_AckTrailIsPrefix ==
  \A d \in Dispatches :
    LET st == Statuses(d) IN
    /\ Len(st) <= 3
    /\ (Len(st) >= 1 => st[1] = "accepted")
    /\ (Len(st) >= 2 => st[2] = "running")
    /\ (Len(st) >= 3 => st[3] \in Terminal)

\* Two dispatches were in flight together; one completed, the other failed.
C1_Witness ==
  \E d, e \in Dispatches :
    /\ Statuses(d) = <<"accepted", "running", "completed">>
    /\ Statuses(e) = <<"accepted", "running", "failed">>
    /\ disp[e].threw

\* C2 as stated: a dispatch whose body threw has exactly one failed ack, with
\* error code APP_SERVER_ERROR, and no completed ack.
C2_ThrowEndsInFailedAck ==
  \A d \in Dispatches :
    disp[d].threw =>
      /\ CountOf(Statuses(d), "failed") = 1
      /\ CountOf(Statuses(d), "completed") = 0
      /\ \A k \in DOMAIN acks[d] : acks[d][k].status = "failed" => acks[d][k].code = "APP_SERVER_ERROR"

\* C2 amended: a dispatch whose body threw has no completed ack, and has
\* exactly one failed ack, with error code APP_SERVER_ERROR and as the last
\* ack, when the relay socket was open in the catch block; when it was not,
\* send() dropped the ack and no failed ack was sent.
C2_ThrowEndsInFailedAckIfRelayOpen ==
  \A d \in Dispatches :
    disp[d].threw =>
      /\ disp[d].pc = "done"
      /\ CountOf(Statuses(d), "completed") = 0
      /\ CountOf(Statuses(d), "failed") = (IF disp[d].relayOpen THEN 1 ELSE 0)
      /\ (disp[d].relayOpen => acks[d][Len(acks[d])].status = "failed")
      /\ \A k \in DOMAIN acks[d] : acks[d][k].status = "failed" => acks[d][k].code = "APP_SERVER_ERROR"

\* A dispatch body threw after its request was sent, and the failed ack went out.
C2_Witness ==
  \E d \in Dispatches :
    /\ disp[d].threw /\ disp[d].relayOpen
    /\ Statuses(d) = <<"accepted", "running", "failed">>
    /\ disp[d].type = "thread.hydrate"

\* C3: every agent request's resolver is signalled exactly once and its
\* pending entry does not outlive the signal: an issued id is either in the
\* table with its timer armed and unsignalled, or out of the table with its
\* timer cleared and signalled once; an id never issued is neither; and no
\* response ever settled a promise whose entry was still in the table.
C3_ResolverSignalledOnce ==
  /\ \A id \in ReqIds :
       IF id < nextId
       THEN \/ id \in cPending /\ id \in cTimers /\ sigCount[id] = 0
            \/ id \notin cPending /\ id \notin cTimers /\ sigCount[id] = 1
       ELSE id \notin cPending /\ id \notin cTimers /\ sigCount[id] = 0
  /\ ~firedInTable

\* One request was answered; another timed out, its awaiter has not resumed
\* yet and the agent's late response to it is still to come.
C3_Witness ==
  \E i, j \in ReqIds :
    /\ sigCount[i] = 1 /\ i \notin cPending /\ ~(\E r \in agentInbox : r.id = i)
    /\ sigCount[j] = 1 /\ mailbox[j].kind = "timeout" /\ (\E r \in agentInbox : r.id = j)

\* C4 as stated: once the agent socket's close event has run, the pending
\* table is empty and every request that was pending has been signalled.
C4_CloseRejectsPending ==
  cws = "closed" => (cPending = {} /\ \A id \in ReqIds : id < nextId => sigCount[id] = 1)

\* C5 as stated: the thread id of every event.upsert sent, by notification
\* forwarding or by a hydration pass, is at that moment the downstream id the
\* binding map holds for the agent thread the event concerns.
C5_UpsertThreadIsBound ==
  lastUpsert.n > 0 => lastUpsert.bound

\* C6 as stated: the timestamps of the items a hydration pass has emitted so
\* far are strictly increasing in emission order.
C6_HydrationTimestampsStrictlyIncrease ==
  hyd.pc \in {"items", "done"} => hyd.mono

\* C7: machine.hello is the first frame the bridge sends on the relay
\* socket, it has been sent once the socket has opened, and no heartbeat
\* timer is armed and no machine.heartbeat sent before a session.ready has
\* been received.
C7_HelloFirstHeartbeatAfterReady ==
  /\ relayFirst \in {"none", "machine.hello"}
  /\ (phase \in {"serving", "stopped"} => relayFirst = "machine.hello")
  /\ (hbArmed > 0 \/ hbSent > 0 => readySeen > 0)

\* After session.ready a heartbeat went out, and a dispatch was acknowledged.
C7_Witness ==
  /\ relayFirst = "machine.hello" /\ readySeen > 0 /\ hbSent > 0
  /\ \E d \in Dispatches : Len(acks[d]) > 0

\* C8 as stated: in every state where the relay socket is closed or stop()
\* has completed, no heartbeat timer is armed.
C8_HeartbeatClearedAfterCloseOrStop ==
  (rws = "closed" \/ stopDone) => hbArmed = 0

\* C9: after a session.error with recoverable=false the bridge is torn down
\* (heartbeat cleared, relay socket released, agent requests rejected) and
\* the process has exited with status 1; a session.error with
\* recoverable=true changes nothing of the session: sockets, heartbeat,
\* pending requests, bindings, dispatches and exit status stay as they are.
C9_FatalExitsRecoverableContinues ==
  /\ [](lastError = "fatal" =>
          /\ exitStatus = 1 /\ stopDone
          /\ hbArmed = 0 /\ ~hbHandle /\ ~wsRef /\ rws # "open"
          /\ cPending = {} /\ cws # "open")
  /\ [][lastError' = "recoverable" /\ lastError = "none" =>
          UNCHANGED <<codexVars, rws, wsRef, hbVars, hbSent, readySeen, relayFirst, escaped,
                      bridgeVars, hyd>>]_vars

\* A fatal session.error arrived while a dispatch was waiting for the agent:
\* the request was rejected by the teardown and the process exited.
C9_Witness ==
  /\ lastError = "fatal" /\ exitStatus = 1 /\ stopDone
  /\ \E id \in ReqIds : mailbox[id].kind = "closed"

\* C10 as stated: no error escapes a message handler, whatever frame arrives
\* on the agent socket or on the relay socket.
C10_NoHandlerErrorEscapes ==
  ~escaped

\* C11: the step in which DurangoBridge.stop runs (on a signal, or on a fatal
\* session.error), from whatever state it starts, ends with the heartbeat
\* timer cleared, the pending-request table empty and every request that was
\* pending rejected with the client-closed error, its timer cleared, neither
\* socket open any more (close() called on each, the references released),
\* and a spawned agent that was running sent SIGTERM.
StopRuns == (phase = "serving" /\ phase' = "stopped") \/ (lastError # "fatal" /\ lastError' = "fatal")
C11_TeardownPostcondition ==
  [][StopRuns =>
       /\ stopDone'
       /\ hbArmed' = 0 /\ ~hbHandle'
       /\ cPending' = {} /\ cTimers' = {}
       /\ \A id \in cPending : mailbox'[id] = Settled("closed", NoVal) /\ sigCount'[id] = sigCount[id] + 1
       /\ rws' \in {"closing", "closed"} /\ ~wsRef'
       /\ cws' \in {"closing", "closed"}
       /\ (proc = "running" => proc' = "terminated")
       /\ proc' # "running"]_vars

\* stop() has run with the heartbeat armed and a request pending on a spawned
\* agent: the request is rejected and the agent terminated.
C11_Witness ==
  /\ stopDone /\ readySeen > 0 /\ hbArmed = 0
  /\ proc = "terminated"
  /\ \E id \in ReqIds : mailbox[id].kind = "closed"

\* C12: no step of a session removes an entry of the thread-binding map: an
\* agent thread that is bound stays bound (to the same or another downstream
\* id) through every dispatch, bootstrap run and notification.
C12_BindingsNeverRemoved ==
  [][\A c \in CodexIds : bindings[c] # NoThread => bindings'[c] # NoThread]_vars

\* A dispatch bound an agent thread, the bootstrap then rebound it to the
\* derived id, and the dispatch has returned.
C12_Witness ==
  \E c \in CodexIds, d \in Dispatches :
    /\ bindings[c] = makeDurangoThreadId(c)
    /\ disp[d].pc = "done" /\ disp[d].cx = c /\ disp[d].type \in {"turn.start", "thread.hydrate"}
    /\ \E k \in 1..MaxReady : boot[k].pc = "done"

\* C13: a notification whose params name no agent thread, or an agent thread
\* without a binding, is dropped: the handler sends no frame of any type, and
\* the step changes neither the binding map nor anything sent on the relay.
Observed == fwd # NoForward
C13_UnboundNotificationDropped ==
  /\ [](Observed /\ ~fwd.bound => fwd.kind = "drop" /\ fwd.sent = 0)
  /\ [][~Observed /\ fwd' # NoForward /\ ~fwd'.bound =>
          UNCHANGED <<bindings, relayFirst, lastUpsert, acks, hbSent>>]_vars

\* With the relay socket open, an item/completed notification carrying an
\* item the translator maps arrived for an agent thread that is not bound.
C13_Witness ==
  /\ Observed /\ fwd.hasThread /\ ~fwd.bound /\ fwd.open
  /\ fwd.method = "item/completed" /\ fwd.mapped > 0 /\ fwd.sent = 0

\* C14 as stated: every iteration of the item loop of a hydration pass, on
\* whatever raw entry, emits at least one event.upsert.
C14_EveryEntryEmits ==
  hyd.pc = "items" /\ hyd.item > 0 => Len(hyd.h.emit) >= 1

\* C15: the terminator of a hydrated turn follows the first normalizable of
\* turn.status, turn.result.status, turn.turn.status, turn.metadata.status:
\* none for running, interrupted for cancelled / canceled / aborted /
\* interrupted, failed for failed / error / errored, completed for the
\* completed-like; with no normalizable status there is none if the turn has
\* running activity, else completed if the turn imported an item, else none.
C15_TerminatorFollowsFirstStatus ==
  LET StatusClass(s) ==
        CASE Lower(s) \in {"running", "in_progress", "inprogress", "queued", "pending", "started"} -> "running"
          [] Lower(s) \in {"cancelled", "canceled", "aborted", "interrupted"} -> "interrupted"
          [] Lower(s) \in {"failed", "error", "errored"} -> "failed"
          [] Lower(s) \in {"completed", "complete", "success", "succeeded"} -> "completed"
          [] OTHER -> "unknown"
      ExpectedTerminator(e) ==
        LET known == {k \in DOMAIN e.candidates : StatusClass(e.candidates[k]) # "unknown"}
            first == CHOOSE k \in known : \A j \in known : k <= j
        IN IF known # {}
           THEN (IF StatusClass(e.candidates[first]) = "running" THEN "none"
                 ELSE StatusClass(e.candidates[first]))
           ELSE IF e.hasRunningActivity THEN "none"
           ELSE IF e.importedTurnItemCount > 0 THEN "completed"
           ELSE "none"
  IN
  hyd.pc \in {"items", "done"} /\ hyd.turnEnd # NoTurnEnd =>
    LET expected == ExpectedTerminator(hyd.turnEnd) IN
    IF expected = "none" THEN hyd.h.emit = <<>>
    ELSE /\ Len(hyd.h.emit) = 1
         /\ hyd.h.emit[1].type = "plan" /\ hyd.h.emit[1].status = expected

\* A turn without any status ended with a running command among its imported
\* items: no terminator.
C15_Witness ==
  /\ hyd.pc \in {"items", "done"} /\ hyd.turnEnd # NoTurnEnd
  /\ \A k \in DOMAIN hyd.turnEnd.candidates : hyd.turnEnd.candidates[k] = ""
  /\ hyd.turnEnd.hasRunningActivity /\ hyd.turnEnd.importedTurnItemCount > 0
  /\ hyd.h.emit = <<>>

\* The nodes of a response in breadth-first order: the response, then level
\* by level the values under thread, result, payload, response and a
\* non-array data, each level in the order of its parents.
RECURSIVE BreadthFirst(_)
BreadthFirst(level) ==
  IF level = <<>> THEN <<>>
  ELSE LET Under(node) ==
             LET at(key) == IF Get(node, key) = Absent \/ (key = "data" /\ IsArray(Get(node, key)))
                            THEN <<>> ELSE <<Get(node, key)>>
             IN at("thread") \o at("result") \o at("payload") \o at("response") \o at("data")
           RECURSIVE Below_(_)
           Below_(nodes) == IF nodes = <<>> THEN <<>> ELSE Under(Head(nodes)) \o Below_(Tail(nodes))
       IN level \o BreadthFirst(Below_(level))

\* What the first node bearing turns yields: its turns array, else its
\* turnsPage.data array or its turns_page.data array, else one synthetic turn
\* of its items.
TurnsOfFirstBearing(response) ==
  LET nodes == BreadthFirst(<<response>>)
      page(node) ==
        IF IsArray(Get(Get(node, "turnsPage"), "data")) THEN Get(Get(node, "turnsPage"), "data")
        ELSE Get(Get(node, "turns_page"), "data")
      Bears(node) == IsArray(Get(node, "turns")) \/ IsArray(page(node)) \/ IsArray(Get(node, "items"))
      bearing == {k \in DOMAIN nodes : Bears(nodes[k])}
      node == nodes[CHOOSE k \in bearing : \A j \in bearing : k <= j]
  IN IF bearing = {} THEN <<>>
     ELSE IF IsArray(Get(node, "turns")) THEN normalizeTurnEntries(Get(node, "turns").a)
     ELSE IF IsArray(page(node)) THEN normalizeTurnEntries(page(node).a)
     ELSE <<[t |-> "object",
             turn |-> IF Get(node, "id").t = "string" THEN Get(node, "id").s ELSE "fresh",
             items |-> Get(node, "items").a]>>

\* C16 as stated: the turns extracted from a thread/read response are those
\* of the first node, in breadth-first order through thread, result, payload,
\* response and non-array data, that bears a turns array, a turnsPage.data or
\* turns_page.data array, or an items array: the turns array, else the
\* turnsPage.data array or the turns_page.data array, else one synthetic turn
\* of the items; no turns when there is no such node.
C16_FirstBearingNodeYieldsTurns ==
  hyd.pc = "read" => hyd.turns = TurnsOfFirstBearing(hyd.response)

C18_TurnCompletedFrames ==
  Observed /\ fwd.method = "turn/completed" /\ fwd.bound /\ fwd.open =>
    IF Lower(fwd.status) \in {"", "completed", "success"}
    THEN fwd.sent = 0
    ELSE fwd.kind = "upsert" /\ fwd.sent = 1

\* C19 as stated: an item/completed notification that carries an item, on a
\* bound thread, forwarded while the relay socket is open, puts on the relay
\* one event.upsert per item the translator maps for the given item, and none
\* when it maps none.
C19_ItemCompletedEmitsMappedItems ==
  Observed /\ fwd.method = "item/completed" /\ fwd.hasItem /\ fwd.bound /\ fwd.open =>
    /\ fwd.sent = fwd.mapped
    /\ fwd.mapped > 0 => fwd.kind = "upsert"

C21_NormalizeOnce ==
  LET v == call.arg
      r == call.ret
      \* r = v * 1000, told by dividing r
      Thousandfold == r.lo % 1000 = 0 /\ r.hi \div 1000 = v.hi
                      /\ (r.hi % 1000) * 1000 + r.lo \div 1000 = v.lo
  IN call.fn = "normalizeTimestamp" /\ v.kind = "number" /\ ~v.neg /\ (v.hi > 0 \/ v.lo > 0) =>
       IF v.hi >= 1000000
       THEN r = v /\ normalizeTimestamp(r, TimestampNow) = r
       ELSE Thousandfold /\ normalizeTimestamp(r, TimestampNow) = r

\* C21 amended: a positive integer of at least 10^12 is returned as it is; a
\* positive integer v below 10^12 yields v * 1000, and normalizing that result
\* again leaves it unchanged when v >= 10^9; for v < 10^9 the result is still
\* below 10^12 and normalizing it again multiplies it by 1000 once more.
C21_NormalizeOnceFromBillion ==
  LET v == call.arg
      r == call.ret
      rr == normalizeTimestamp(r, TimestampNow)
      Thousandfold(x, y) == y.lo % 1000 = 0 /\ y.hi \div 1000 = x.hi
                            /\ (y.hi % 1000) * 1000 + y.lo \div 1000 = x.lo
  IN call.fn = "normalizeTimestamp" /\ v.kind = "number" /\ ~v.neg /\ (v.hi > 0 \/ v.lo > 0) =>
       IF v.hi >= 1000000 THEN r = v /\ rr = r
       ELSE IF v.hi >= 1000 THEN Thousandfold(v, r) /\ rr = r
       ELSE Thousandfold(v, r) /\ Thousandfold(r, rr) /\ rr # r

\* Unix seconds of the year 2023 became milliseconds, which stay as they are
C21_Witness ==
  /\ call.fn = "normalizeTimestamp"
  /\ call.arg = Num(1699, 500000) /\ call.ret = Num(1699500, 0)
  /\ normalizeTimestamp(call.ret, TimestampNow) = call.ret

\* C22 as stated: the file written for an attachment lies directly under
\* <base>/.durango/uploads/<requestId>/, and its name is the attachment's
\* 1-based index in two digits, a hyphen, and 1 to 120 characters of
\* [A-Za-z0-9._-].
C22_AttachmentFileName ==
  call.fn = "materializeAttachmentInputs" =>
    LET path == call.ret
        fileName == path[Len(path)]
        Digits == {"0", "1", "2", "3", "4", "5", "6", "7", "8", "9"}
        Value(ch) == CHOOSE d \in 0..9 : <<"0", "1", "2", "3", "4", "5", "6", "7", "8", "9">>[d + 1] = ch
    IN /\ SubSeq(path, 1, Len(path) - 1) = call.arg.baseDir \o <<".durango", "uploads", call.arg.requestId>>
       /\ Len(fileName) >= 4 /\ Len(fileName) <= 123
       /\ fileName[1] \in Digits /\ fileName[2] \in Digits /\ fileName[3] = "-"
       /\ Value(fileName[1]) * 10 + Value(fileName[2]) = call.arg.index + 1
       /\ \A k \in 4..Len(fileName) : fileName[k] \in AdmittedChars

\* A dispatch that starts a turn with nothing to send: no prompt text after
\* trimming and no attachment.
EmptyTurnInput(rec) == rec.type \in {"thread.start", "turn.start"} /\ ~rec.prompt /\ rec.natt = 0

\* C23 as stated: a thread.start or turn.start dispatch with an empty prompt
\* and no attachments never has a turn/start request in flight, and ends with
\* a failed ack that carries the message of buildTurnInput.
C23_EmptyInputFails ==
  \A d \in Dispatches :
    EmptyTurnInput(disp[d]) =>
      /\ disp[d].pc # "turnWait"
      /\ disp[d].pc = "done" =>
            /\ acks[d] # <<>>
            /\ acks[d][Len(acks[d])] = FailedAck(EmptyInputMessage)

\* C23 amended: such a dispatch never has a turn/start request in flight and
\* its body throws, so no completed ack is sent; when the body got as far as
\* buildTurnInput (at once for turn.start, after threadStart returned a thread
\* for thread.start) and the relay socket was open in the catch block, its
\* last ack is the failed ack with the message of buildTurnInput. A
\* thread.start whose threadStart was rejected fails with that rejection's
\* message instead, and with the relay socket closed no failed ack is sent.
C23_EmptyInputFailsOnceBuilt ==
  \A d \in Dispatches :
    EmptyTurnInput(disp[d]) =>
      /\ disp[d].pc # "turnWait"
      /\ disp[d].pc = "done" =>
            /\ disp[d].threw
            /\ CountOf(Statuses(d), "completed") = 0
            /\ (disp[d].relayOpen /\ (disp[d].type = "turn.start" \/ disp[d].cx # 0) =>
                  /\ acks[d] # <<>>
                  /\ acks[d][Len(acks[d])] = FailedAck(EmptyInputMessage))
            /\ (disp[d].relayOpen /\ disp[d].type = "thread.start" /\ disp[d].cx = 0 =>
                  /\ acks[d] # <<>>
                  /\ acks[d][Len(acks[d])].status = "failed"
                  /\ acks[d][Len(acks[d])].message # EmptyInputMessage)
            /\ (~disp[d].relayOpen => CountOf(Statuses(d), "failed") = 0)

\* A thread.start with nothing to send got its thread from the agent and then
\* failed in buildTurnInput, the failed ack going out.
C23_Witness ==
  \E d \in Dispatches :
    /\ EmptyTurnInput(disp[d]) /\ disp[d].type = "thread.start" /\ disp[d].pc = "done"
    /\ disp[d].cx # 0 /\ disp[d].threw /\ disp[d].relayOpen
    /\ acks[d][Len(acks[d])] = FailedAck(EmptyInputMessage)

\* C24 as stated: every call of saveProjectRegistration returns the id the
\* first call for the same resolved path returned, and the gitBranch it was
\* called with.
C24_ProjectIdPreserved ==
  call.fn = "saveProjectRegistration" /\ call.n > 0 =>
    /\ call.ret.id = call.first[call.ret.absolutePath]
    /\ call.ret.gitBranch = call.arg.gitBranch

\* C25 as stated: while the turn/start request of a thread.start dispatch is
\* in flight, the agent thread that threadStart created has a binding.
C25_BoundBeforeTurnStart ==
  \A d \in Dispatches :
    disp[d].type = "thread.start" /\ disp[d].pc = "turnWait" => bindings[disp[d].cx] # NoThread

\* C26 as stated: when the spawned agent has exited while connect() was
\* retrying, connect() ends with the error that names the exit code, and it
\* ends at the loop iteration that follows the exit: at most the attempt in
\* flight and one retry delay later, not at its 25 s bound.
C26_ExitEndsConnect ==
  call.fn = "connect" /\ call.exitedAt # NoExitCode /\ call.pc = "done" =>
    /\ call.outcome = "exitedEarly"
    /\ call.elapsed - call.exitedAt <= ConnectOnceTimeoutMs + RetryDelayMs

\* C27: initialize is the first agent request; any other agent request is
\* issued, and the relay socket is dialed, only by the step that takes the
\* successful result of initialize or after it; and when connect or
\* initialize has failed the relay socket is never created.
C27_InitializeFirst ==
  [][LET issued == {r.method : r \in agentInbox' \ agentInbox}
         initialized == \/ phase \in {"authWait", "relayWait", "serving", "stopped"}
                        \/ phase = "initWait" /\ IsSettled(startWait)
                             /\ mailbox[startWait].kind = "result"
         failedEarly == phase \in {"new", "initWait"} /\ phase' = "failed"
     IN /\ "initialize" \in issued => phase = "new" /\ nextId = 1 /\ issued = {"initialize"}
        /\ issued \ {"initialize"} # {} => initialized
        /\ rws = "none" /\ rws' # "none" => initialized /\ rws' = "connecting"
        /\ failedEarly => rws' = "none"
        /\ phase = "failed" /\ rws = "none" => rws' = "none"]_vars

\* The relay socket is open and a request other than initialize and
\* getAuthStatus has been issued.
C27_Witness ==
  /\ phase = "serving" /\ rws = "open" /\ nextId > 3
  /\ \E r \in agentInbox : r.method \notin {"initialize", "getAuthStatus"}

\* C28 as stated: once a dispatch's completed or failed ack has been emitted,
\* this.pending holds no entry for its request id.
C28_RecordDiscardedAfterTerminalAck ==
  \A d \in Dispatches :
    (\E k \in DOMAIN acks[d] : acks[d][k].status \in {"completed", "failed"}) => d \notin bPending

\* C29: within a hydration pass, whatever a step emits belongs to a turn
\* later than every turn whose terminator has been emitted, so a terminator
\* follows every replayed item of its turn; and the step that emits a turn's
\* terminator moves on to the next turn, so the terminator precedes every
\* item of the next turn.
C29_TerminatorClosesTurn ==
  [][hyd.pc = "items" =>
       LET emit == hyd'.h.emit
           ended == hyd'.turnEnd # NoTurnEnd
       IN /\ \A k \in DOMAIN emit : emit[k].turnId > hyd.closed /\ emit[k].turnId = hyd.turn
          /\ ended /\ emit # <<>> => hyd'.closed = hyd.turn /\ hyd'.turn = hyd.turn + 1
          /\ hyd'.closed < hyd'.turn]_vars

\* The first turn's terminator has been emitted after its item, and an item
\* of the second turn after that.
C29_Witness ==
  /\ hyd.pc = "items" /\ hyd.closed = 1 /\ hyd.turn = 2 /\ hyd.item = 1
  /\ hyd.h.emit # <<>> /\ hyd.h.emit[1].turnId = 2 /\ hyd.emitted >= 3

\* C30 as stated: the items of a turn are the first non-empty array among
\* its items, events, messages, output and content fields, in that order;
\* when none of them is a non-empty array, the wrapped item if present,
\* otherwise the wrapped message if present, otherwise nothing.
C30_FirstNonEmptyArray ==
  call.fn = "extractItemsFromTurn" =>
    LET turn == call.arg
        candidates == <<turn.items, turn.events, turn.messages, turn.output, turn.content>>
        nonEmpty == {k \in DOMAIN candidates : IsArray(candidates[k]) /\ candidates[k].a # <<>>}
    IN call.ret = (IF nonEmpty # {} THEN candidates[CHOOSE k \in nonEmpty : \A j \in nonEmpty : k <= j].a
                   ELSE IF turn.item # Absent THEN <<turn.item>>
                   ELSE IF turn.message # Absent THEN <<turn.message>>
                   ELSE <<>>)

\* C31: for an item/started notification on a bound thread, event.upsert
\* frames are sent only when params carry an item whose type is a command
\* execution; with any other item type, and with no item, the handler sends
\* nothing.
C31_StartedForwardsCommandsOnly ==
  fwd # NoForward /\ fwd.method = "item/started" /\ fwd.bound =>
    LET command == fwd.hasItem /\ IsCommandType(fwd.itemType) IN
    /\ fwd.sent > 0 => command /\ fwd.kind = "upsert"
    /\ ~command => fwd.kind = "drop" /\ fwd.sent = 0

\* A started command execution on a bound thread went out as one event.upsert.
C31_Witness ==
  /\ fwd # NoForward /\ fwd.method = "item/started" /\ fwd.bound /\ fwd.open
  /\ fwd.hasItem /\ fwd.itemType = "command_execution"
  /\ fwd.kind = "upsert" /\ fwd.sent = 1

\* C32: a registration that fails does not end the loop over the projects:
\* thread discovery starts only when every project has been attempted,
\* whatever the number of failures, and it does start then while the agent
\* socket is open. A bootstrap that ends on a failed thread/list installs no
\* binding and sends no thread.upsert, and it leaves the relay socket, its
\* heartbeat, the phase of the bridge and the dispatches as they were.
C32_BootstrapSurvivesFailure ==
  /\ [](\A k \in 1..MaxReady :
          /\ boot[k].pc = "register" => boot[k].attempts < Len(boot[k].projects)
          /\ boot[k].pc = "listWait" =>
                boot[k].attempts = Len(boot[k].projects) /\ boot[k].failures <= boot[k].attempts)
  /\ [][\A k \in 1..MaxReady :
          /\ boot[k].pc = "register" /\ boot'[k].pc # "register" =>
                /\ boot[k].attempts + 1 = Len(boot[k].projects)
                /\ IF CanRequest THEN boot'[k].pc = "listWait" ELSE boot'[k].pc = "done"
          /\ boot[k].pc \in {"register", "listWait"} /\ boot'[k].pc = "done" /\ ~boot'[k].listed =>
                UNCHANGED <<bindings, relayFirst, lastUpsert, rws, wsRef, hbVars, phase,
                            exitStatus, disp, acks>>]_vars

\* Both registrations of a machine with two projects failed and the first
\* page of threads has been asked for.
C32_Witness ==
  \E k \in 1..MaxReady :
    /\ boot[k].pc = "listWait" /\ Len(boot[k].projects) = 2
    /\ boot[k].failures = 2 /\ boot[k].attempts = 2

\* C33 as stated: a session.ready starts one bootstrap, and no dispatch gets
\* its accepted ack while a bootstrap is loading the projects, registering
\* them or listing the threads.
BootInProgress(k) == boot[k].pc \in {"projects", "register", "listWait"}

C33_BootstrapBeforeDispatch ==
  [][/\ readySeen' # readySeen =>
          \A k \in 1..MaxReady : boot'[k] # boot[k] <=> k = readySeen'
     /\ (\E d \in Dispatches : acks[d] = <<>> /\ acks'[d] # <<>>) =>
          \A k \in 1..MaxReady : ~BootInProgress(k)]_vars

\* C34: listThreads and listModels work with maxPages within 1..20 and limit
\* within 1..100 (the argument itself when it is within the range), never
\* have asked for more than maxPages pages, ask for a further page only
\* after a non-empty page with a next cursor, and, the agent answering each
\* page request, come to an end.
C34_ListingTerminates ==
  /\ [](call.fn \in {"listThreads", "listModels"} =>
          /\ call.maxPages \in 1..20 /\ call.pageLimit \in 1..100
          /\ call.args.maxPages # <<>> /\ call.args.maxPages[1] \in 1..20 =>
                call.maxPages = call.args.maxPages[1]
          /\ call.args.limit # <<>> /\ call.args.limit[1] \in 1..100 =>
                call.pageLimit = call.args.limit[1]
          /\ call.pages + (IF call.pc = "wait" THEN 1 ELSE 0) <= call.maxPages
          /\ call.pc = "wait" /\ call.pages > 0 => call.more /\ call.size > 0
          /\ call.pc = "done" =>
                ~call.more \/ call.size = 0 \/ call.pages = call.maxPages)
  /\ (call.fn \in {"listThreads", "listModels"} ~>
        call.fn \in {"listThreads", "listModels"} /\ call.pc \in {"done", "threw"})

\* listThreads asked for 21 pages stopped after 20 pages that were all
\* non-empty and carried a next cursor.
C34_Witness ==
  /\ call.fn = "listThreads" /\ call.pc = "done" /\ call.args.maxPages = <<21>>
  /\ call.pages = 20 /\ call.count = 20 /\ call.more /\ call.size > 0

\* C35 as stated: the agent transport publishes a frame as a notification
\* only when the frame has a method and no id; a frame with both a method
\* and an id is rejected with a diagnostic and not published.
C35_NotificationsHaveNoId ==
  call.fn = "bindSocket" =>
    /\ call.ret = "notification" => call.arg.method # Absent /\ call.arg.id = Absent
    /\ call.arg.method # Absent /\ call.arg.id # Absent => call.ret = "rejected"

\* The request ids of the model have run out where listModels asks for one
\* more page: the exploration ends there, the program would go on.
OutOfRequestIds == nextId > MaxReq /\ disp[1].pc = "modelsWait" /\ IsSettled(disp[1].wait)

\* C36 as stated: a dispatch.request that the handler has taken up gets a
\* completed or failed ack in the end.
C36_TerminalAckInTheEnd ==
  disp[1].pc # "idle" ~>
    (\E k \in DOMAIN acks[1] : acks[1][k].status \in Terminal) \/ OutOfRequestIds

\* C36 amended: a dispatch.request that the handler has taken up reaches the
\* end of its handler unless the process exits first, and the step that ends
\* the handler sends a completed or failed ack as the last ack of the
\* dispatch when the relay socket is open at that moment; when it is not,
\* send() drops the ack.
C36_HandlerEndsInTheEnd ==
  /\ (disp[1].pc # "idle" ~> disp[1].pc = "done" \/ ~Alive \/ OutOfRequestIds)
  /\ [][disp[1].pc # "done" /\ disp'[1].pc = "done" =>
          IF CanSend
          THEN acks'[1] # <<>> /\ acks'[1][Len(acks'[1])].status \in Terminal
          ELSE acks'[1] = acks[1]]_vars

\* The agent never answered the request of a dispatch; its timer fired and
\* the failed ack went out.
C36_Witness ==
  /\ disp[1].pc = "done" /\ disp[1].threw /\ disp[1].relayOpen
  /\ acks[1] # <<>> /\ acks[1][Len(acks[1])] = FailedAck(RejectMessage("timeout"))

\* A step in which the handler takes up dispatch d and goes straight to its
\* first agent request: every action type but a turn.start that has
\* attachments to write first or nothing to send.
FirstRequest(d) ==
  /\ disp[d].pc = "idle" /\ disp'[d].pc # "idle"
  /\ ~(disp'[d].type = "turn.start" /\ (disp'[d].natt > 0 \/ EmptyTurnInput(disp'[d])))

C38_FailedStartInstallsNothing ==
  /\ [](\A d \in Dispatches :
          disp[d].type = "thread.start" /\ disp[d].threw =>
            d \notin bPending /\ \A c \in CodexIds : bindings[c] # RequestId(d))
  /\ [][\A d \in Dispatches :
          /\ disp'[d] # disp[d] /\ disp'[d].type = "thread.start"
          /\ ~(disp'[d].pc = "done" /\ ~disp'[d].threw)
          => UNCHANGED <<bindings, bPending>>]_vars

\* A thread.start got its agent thread, its turnStart failed, the failed ack
\* went out, and the agent thread is unbound.
C38_Witness ==
  \E d \in Dispatches :
    /\ disp[d].type = "thread.start" /\ disp[d].pc = "done" /\ disp[d].threw
    /\ disp[d].cx # 0 /\ disp[d].prompt /\ disp[d].natt = 0
    /\ Statuses(d) = <<"accepted", "running", "failed">>
    /\ bindings[disp[d].cx] = NoThread /\ bPending = {}

\* C39: at most one heartbeat interval is armed at any time, and it is the
\* one the heartbeatTimer field holds; a session.ready that arrives while
\* an interval is armed leaves exactly one armed.
C39_OneHeartbeatTimer ==
  /\ [](hbArmed = (IF hbHandle THEN 1 ELSE 0))
  /\ [][readySeen' = readySeen + 1 => hbArmed' = 1 /\ hbHandle']_vars

\* A third session.ready has restarted the heartbeat on the open socket and a
\* heartbeat has been sent.
C39_Witness ==
  readySeen = 3 /\ hbArmed = 1 /\ hbHandle /\ rws = "open" /\ hbSent > 0

\* C40: a response frame whose id has no pending entry, because the id was
\* never issued, the request was answered before, it timed out or stop()
\* rejected it, changes nothing: the pending table, the timers and every
\* resolver stay as they were, and no frame goes to the relay.
C40_UnmatchedResponseIgnored ==
  [][(call' # call \/ \E r \in agentInbox : r \notin agentInbox' /\ r.id \notin cPending)
       => UNCHANGED <<cPending, cTimers, mailbox, sigCount, nextId, relayFirst, lastUpsert,
                      acks, disp, bindings, bPending>>]_vars

\* A second response arrived for a request that had been answered and whose
\* awaiter has not yet resumed: the first answer is still the settled one.
C40_Witness ==
  /\ call.fn = "strayResponse" /\ call.id < nextId /\ call.isError
  /\ sigCount[call.id] = 1 /\ call.id \notin cPending /\ mailbox[call.id].kind = "result"

=============================================================================
